---- MODULE Spec2Model ----
(***************************************************************************)
(* JobChain: a task-graph execution engine and its task pipeline.          *)
(*                                                                         *)
(* The specifications of this module:                                      *)
(*   SpecEngine  the fan-in / fan-out execution of several tasks through   *)
(*               one shared job graph (JobABC._execute and the per-task    *)
(*               execution context).                                       *)
(*   FairSpecEngine  SpecEngine with jobs that do not raise, under the     *)
(*               fairness of the cooperative scheduler.                    *)
(*   Spec        the task pipeline of job_chain.py: the caller, the        *)
(*               JobExecutorProcess (_async_worker), the optional          *)
(*               ResultProcessorProcess and the two queues between them.   *)
(*   FairSpec    Spec without external termination of the worker, with the *)
(*               fairness of the operating system's and asyncio's          *)
(*               schedulers.                                               *)
(*   FairStartSpec  Spec without external termination and cleanup calls,   *)
(*               with the fairness of the event loop that starts tasks.    *)
(*   SpecSubmit  the pipeline constructed with one job or with two, and    *)
(*               submit_task called with and without job names.            *)
(*   SpecConstruct  the pipeline constructed from a collection of jobs,     *)
(*               valid or not, and used when the constructor succeeded.    *)
(*   SpecDsl     a DSL expression composed with |, >>, parallel() and      *)
(*               serial(), compiled by dsl_to_precedence_graph and wired   *)
(*               by the Job Graph Builder.                                 *)
(***************************************************************************)
EXTENDS Integers, Sequences, FiniteSets, TLC

\* Number of tasks that are executed / submitted.
MaxTasks == 2

Tasks == 1..MaxTasks

(***************************************************************************)
(* Part 1.  The execution engine.                                          *)
(***************************************************************************)

Jobs == {"A", "B", "C", "D"}

\* The key under which the head job receives the task payload.
TaskKey == "__task__"

\* The key under which the result echoes the submitted payload.
PassThroughKey == "task_pass_through"

\* tests/test_concurrency.py: the graph of test_simple_graph.
graph_definition1 ==
    [A |-> <<"B", "C">>, B |-> <<"C", "D">>, C |-> <<"D">>, D |-> <<>>]

\* The diamond A -> (B | C) -> D.
graph_diamond ==
    [A |-> <<"B", "C">>, B |-> <<"D">>, C |-> <<"D">>, D |-> <<>>]

\* A graph with two sinks, C and D.
graph_two_sinks ==
    [A |-> <<"B", "C">>, B |-> <<"D">>, C |-> <<>>, D |-> <<>>]

Graphs == {graph_definition1, graph_diamond, graph_two_sinks}

VARIABLES
    graph,          \* the precedence graph the head job was built from
    context,        \* task -> "none" | "live" | "emitted" | "failed"
    inputs_so_far,  \* context key -> job -> set of <<predecessor name, task the output was produced for>>
    fired,          \* context key -> set of jobs whose run has been invoked
    calls,          \* task -> job -> number of _execute calls made and not yet begun
    jstate,         \* task -> job -> "idle" | "running" | "done" | "failed" | "cancelled"
    run_args,       \* task -> job -> the inputs argument of the job's last run
    run_count,      \* task -> job -> number of times run was invoked
    skipped,        \* task -> job -> number of _execute calls that returned without running
    result          \* task -> the result returned for the task ({} while there is none)

evars == <<graph, context, inputs_so_far, fired, calls, jstate, run_args,
           run_count, skipped, result>>

\* The state of the task pipeline (Part 2).
VARIABLES
    mode,                 \* the construction mode, one of Modes
    task_queue,           \* _task_queue
    result_queue,         \* _result_queue
    nsub,                 \* number of tasks submit_task has put on the task queue
    kind,                 \* task -> "unset" | "ok" | "raise"
    cpc,                  \* the caller: "submitting" | "serial_get" | "serial_check" |
                          \*   "join_worker" | "join_rp" | "cleanup" | "done" |
                          \*   "cleaned" (after a _cleanup call while submitting)
    wpc,                  \* job_executor_process: "unstarted" | "loop" | "signalled" | "exited" |
                          \*   "terminated" (from outside) | "killed" (by _cleanup)
    end_signal_received,  \* queue_monitor's flag
    tasks,                \* queue_monitor's set of asyncio tasks
    tstate,               \* task -> "none" | "created" | "running" | "returned" | "raised"
    rpc,                  \* result_processor_process: "absent" | "running" | "returned" | "killed"
    closed,               \* both queues have been closed by _cleanup
    caller_error,         \* an exception has propagated to the caller of submit_task
                          \*   or mark_input_completed
    \* history
    dequeued,             \* the tasks in the order the worker took them from the task queue
    created_count,        \* task -> number of process_task executions created for it
    results_put,          \* task -> number of times its result was put on the result queue
    sentinels_put,        \* number of None put on the result queue
    task_sentinels,       \* number of None put on the task queue
    sink_calls,           \* task -> number of times the sink was invoked with its result
    serial_end,           \* how _process_serial_results ended: "none" | "sentinel" | "dead"
    crash_call            \* submit_task or mark_input_completed was called after the
                          \*   worker had died without emitting the sentinel

pvars == <<mode, task_queue, result_queue, nsub, kind, cpc, wpc,
           end_signal_received, tasks, tstate, rpc, closed, caller_error,
           dequeued, created_count, results_put, sentinels_put,
           task_sentinels, sink_calls, serial_end, crash_call>>

\* What the constructor was given and what it did (fixed after construction).
VARIABLES
    picklable,            \* the sink and its closure variables can be pickled
    construct_error,      \* __init__ raised
    queues_created,       \* __init__ created the two queues
    njobs,                \* len(job_map): the number of jobs (graphs) loaded
    job_collection,       \* the collection of jobs __init__ was given: the names of its items
    job_map               \* the keys of job_map in insertion order

cvars == <<picklable, construct_error, queues_created, njobs, job_collection, job_map>>

\* What submit_task was given and did, and which job executed each task.
VARIABLES
    job_name,             \* task -> the 'job_name' entry of the Task put on the queue
    given,                \* task -> the name the caller gave: "none" | "known" | "unknown"
    submit_errors,        \* the errors that occurred inside submit_task calls
    raised_errors,        \* the errors submit_task raised to its caller
    none_at,              \* nsub at the first submit_task(None), -1 before it
    dispatched,           \* task -> the job whose _execute process_task awaited
    payload               \* the 'job_name' entry of the caller's dict before and after
                          \*   the last submit_task call

svars == <<job_name, given, submit_errors, raised_errors, none_at, dispatched, payload>>

\* No submit_task call has been made.
NoSubmit == [before |-> "<unset>", after |-> "<unset>"]

\* The order of events across tasks.
VARIABLES
    completed,            \* the tasks in the order in which their job._execute returned
    sink_order,           \* the tasks in the order in which their results reached the sink
    sink_raised,          \* the tasks on whose result the sink raised an exception
    cleanup_calls         \* the number of _cleanup calls that have returned

ovars == <<completed, sink_order, sink_raised, cleanup_calls>>

\* The DSL expression being composed and what the compiler made of it.
VARIABLES
    dsl_obj,              \* the DSL object the last operator or function returned
    dsl_calls,            \* the operators, functions and constructors applied:
                          \*   "or" | "rshift" | "parallel" | "serial" | "Parallel" | "Serial"
    dsl_args,             \* the operands they were applied to, the first job first
    precedence_graph,     \* what dsl_to_precedence_graph returned: name -> list of names
    compile_result,       \* "pending" | "returned": dsl_to_precedence_graph has returned
    build_result,         \* "pending" | "built" | "NoSingleHead": what the Job Graph Builder did
    built_head,           \* the name of the head job the builder returned, "" without one
    wired_next_jobs,      \* name -> the job's next_jobs: the list of successor jobs
    wired_expected_inputs \* name -> the job's expected_inputs: a set of names

\* What the Job Graph Builder produces.
bvars == <<build_result, built_head, wired_next_jobs, wired_expected_inputs>>

dvars == <<dsl_obj, dsl_calls, dsl_args, precedence_graph, compile_result, bvars>>

vars == <<evars, pvars, cvars, svars, ovars, dvars>>

\* A DSL object: a job (MockJobABC), a Parallel or a Serial with its
\* components, or a WrappingJob around a wrapped object.  Jobs are told apart
\* by identity (id); str(job) is the job's name.
DslObject(k, i, n, comps) == [kind |-> k, id |-> i, name |-> n, components |-> comps]

\* No DSL object has been made.
NoDsl == DslObject("none", 0, "", <<>>)

\* The empty mapping.
EmptyGraph == [n \in {} |-> <<>>]


\* The Job Graph Builder: next_jobs in declared order, expected_inputs from the reverse mapping.
next_jobs(j) == graph[j]

SeqRange(s) == {s[i] : i \in DOMAIN s}

expected_inputs(j) == {p \in Jobs : j \in SeqRange(graph[p])}

head_job == CHOOSE j \in Jobs : expected_inputs(j) = {}

sink_jobs == {j \in Jobs : next_jobs(j) = <<>>}

\* Per-task state is kept in a table keyed by the task id.
ContextKeyShared(t) == 1

ContextKey(t) == t

InputKeys(m) == {e[1] : e \in m}

\* inputs_so_far is a mapping: recording under a name replaces what was under it.
RecordInput(m, name, producer) == {e \in m : e[1] # name} \cup {<<name, producer>>}

\* The src stub (job.py has_all_dependencies returns True).
has_all_dependencies_stub(t, j) == TRUE

has_any_dependency(t, j) ==
    expected_inputs(j) = {} \/
    expected_inputs(j) \cap InputKeys(inputs_so_far[ContextKey(t)][j]) # {}

\* The firing rule: expected_inputs is a subset of the keys of inputs_so_far.
has_all_dependencies(t, j) ==
    expected_inputs(j) \subseteq InputKeys(inputs_so_far[ContextKey(t)][j])

ShouldRunNoFiredGuard(t, j) == has_all_dependencies(t, j)

\* A job fires when its firing rule holds, at most once per context.
ShouldRun(t, j) ==
    has_all_dependencies(t, j) /\ j \notin fired[ContextKey(t)]

EmptyInputs == [j \in Jobs |-> {}]

TeardownKeepsEntry(entry) == entry

\* Context teardown: the per-task entry is removed from the context table.
Teardown(entry) == EmptyInputs

InitEngine ==
    /\ graph \in Graphs
    /\ context = [t \in Tasks |-> "none"]
    /\ inputs_so_far = [k \in Tasks |-> EmptyInputs]
    /\ fired = [k \in Tasks |-> {}]
    /\ calls = [t \in Tasks |-> [j \in Jobs |-> 0]]
    /\ jstate = [t \in Tasks |-> [j \in Jobs |-> "idle"]]
    /\ run_args = [t \in Tasks |-> [j \in Jobs |-> {}]]
    /\ run_count = [t \in Tasks |-> [j \in Jobs |-> 0]]
    /\ skipped = [t \in Tasks |-> [j \in Jobs |-> 0]]
    /\ result = [t \in Tasks |-> {}]
    /\ mode = "none"
    /\ task_queue = <<>>
    /\ result_queue = <<>>
    /\ nsub = 0
    /\ kind = [t \in Tasks |-> "unset"]
    /\ cpc = "submitting"
    /\ wpc = "loop"
    /\ end_signal_received = FALSE
    /\ tasks = {}
    /\ tstate = [t \in Tasks |-> "none"]
    /\ rpc = "absent"
    /\ closed = FALSE
    /\ caller_error = FALSE
    /\ dequeued = <<>>
    /\ created_count = [t \in Tasks |-> 0]
    /\ results_put = [t \in Tasks |-> 0]
    /\ sentinels_put = 0
    /\ task_sentinels = 0
    /\ sink_calls = [t \in Tasks |-> 0]
    /\ serial_end = "none"
    /\ crash_call = FALSE
    /\ picklable = TRUE
    /\ construct_error = FALSE
    /\ queues_created = FALSE
    /\ njobs = 1
    /\ job_collection = <<"J1">>
    /\ job_map = <<"J1">>
    /\ job_name = [t \in Tasks |-> ""]
    /\ given = [t \in Tasks |-> "none"]
    /\ submit_errors = {}
    /\ raised_errors = {}
    /\ none_at = -1
    /\ payload = NoSubmit
    /\ dispatched = [t \in Tasks |-> ""]
    /\ completed = <<>>
    /\ sink_order = <<>>
    /\ sink_raised = {}
    /\ cleanup_calls = 0
    /\ dsl_obj = NoDsl
    /\ dsl_calls = <<>>
    /\ dsl_args = <<>>
    /\ precedence_graph = EmptyGraph
    /\ compile_result = "pending"
    /\ build_result = "pending"
    /\ built_head = ""
    /\ wired_next_jobs = EmptyGraph
    /\ wired_expected_inputs = EmptyGraph

\* A task arrives at the head: its context is created, the payload is the
\* head's sole input, and the head's _execute is called.
Arrive(t) ==
    /\ context[t] = "none"
    /\ context' = [context EXCEPT ![t] = "live"]
    /\ inputs_so_far' = [inputs_so_far EXCEPT ![ContextKey(t)][head_job] =
                            RecordInput(@, TaskKey, t)]
    /\ calls' = [calls EXCEPT ![t][head_job] = @ + 1]
    /\ UNCHANGED pvars
    /\ UNCHANGED <<graph, fired, jstate, run_args, run_count, skipped, result>>
    /\ UNCHANGED cvars
    /\ UNCHANGED svars
    /\ UNCHANGED ovars
    /\ UNCHANGED dvars

\* JobABC._execute up to the await of run: skip when the dependencies are
\* not met, else invoke run with the whole inputs_so_far mapping.
Execute(t, j) ==
    /\ context[t] = "live"
    /\ calls[t][j] > 0
    /\ calls' = [calls EXCEPT ![t][j] = @ - 1]
    /\ IF ShouldRun(t, j)
       THEN /\ fired' = [fired EXCEPT ![ContextKey(t)] = @ \cup {j}]
            /\ jstate' = [jstate EXCEPT ![t][j] = "running"]
            /\ run_args' = [run_args EXCEPT ![t][j] = inputs_so_far[ContextKey(t)][j]]
            /\ run_count' = [run_count EXCEPT ![t][j] = @ + 1]
            /\ UNCHANGED skipped
       ELSE /\ skipped' = [skipped EXCEPT ![t][j] = @ + 1]
            /\ UNCHANGED <<fired, jstate, run_args, run_count>>
    /\ UNCHANGED pvars
    /\ UNCHANGED <<graph, context, inputs_so_far, result>>
    /\ UNCHANGED cvars
    /\ UNCHANGED svars
    /\ UNCHANGED ovars
    /\ UNCHANGED dvars

RoutedFirstOnly(isf, t, j) ==
    [s \in Jobs |-> IF next_jobs(j) # <<>> /\ s = Head(next_jobs(j))
                    THEN RecordInput(isf[s], j, t)
                    ELSE isf[s]]

\* The successors' inputs after job j's output for task t has been routed.
Routed(isf, t, j) ==
    [s \in Jobs |-> IF s \in SeqRange(next_jobs(j))
                    THEN RecordInput(isf[s], j, t)
                    ELSE isf[s]]

CompositeResultAllOutputs(t, isf) ==
    {<<s, t>> : s \in Jobs} \cup
    {<<PassThroughKey, e[2]>> : e \in {x \in isf[head_job] : x[1] = TaskKey}}

\* The composite result: the sinks' outputs and the echo of the payload.
CompositeResult(t, isf) ==
    {<<s, t>> : s \in sink_jobs} \cup
    {<<PassThroughKey, e[2]>> : e \in {x \in isf[head_job] : x[1] = TaskKey}}

\* run returns: the output is recorded with every successor, whose _execute
\* is called; a sink deposits its output, and once every sink has, the
\* result is emitted and the context is torn down.
RunReturn(t, j) ==
    /\ context[t] = "live"
    /\ jstate[t][j] = "running"
    /\ jstate' = [jstate EXCEPT ![t][j] = "done"]
    /\ LET done == {s \in Jobs : jstate'[t][s] = "done"}
           finished == j \in sink_jobs /\ sink_jobs \subseteq done
       IN  IF finished
           THEN /\ result' = [result EXCEPT ![t] =
                                CompositeResult(t, inputs_so_far[ContextKey(t)])]
                /\ context' = [context EXCEPT ![t] = "emitted"]
                /\ inputs_so_far' = [inputs_so_far EXCEPT ![ContextKey(t)] = Teardown(@)]
                /\ fired' = [fired EXCEPT ![ContextKey(t)] = {}]
                /\ calls' = [calls EXCEPT ![t] = [s \in Jobs |-> 0]]
           ELSE /\ inputs_so_far' = [inputs_so_far EXCEPT ![ContextKey(t)] =
                                        Routed(@, t, j)]
                /\ calls' = [calls EXCEPT ![t] =
                                [s \in Jobs |-> IF s \in SeqRange(next_jobs(j))
                                                THEN @[s] + 1 ELSE @[s]]]
                /\ UNCHANGED <<result, context, fired>>
    /\ UNCHANGED pvars
    /\ UNCHANGED <<graph, run_args, run_count, skipped>>
    /\ UNCHANGED cvars
    /\ UNCHANGED svars
    /\ UNCHANGED ovars
    /\ UNCHANGED dvars

\* run raises: the error is surfaced, the task's context is dropped and no
\* result is produced for the task.
RunRaise(t, j) ==
    /\ context[t] = "live"
    /\ jstate[t][j] = "running"
    /\ jstate' = [jstate EXCEPT ![t] =
                    [s \in Jobs |-> IF s = j THEN "failed"
                                    ELSE IF @[s] = "running" THEN "cancelled"
                                    ELSE @[s]]]
    /\ context' = [context EXCEPT ![t] = "failed"]
    /\ inputs_so_far' = [inputs_so_far EXCEPT ![ContextKey(t)] = Teardown(@)]
    /\ fired' = [fired EXCEPT ![ContextKey(t)] = {}]
    /\ calls' = [calls EXCEPT ![t] = [s \in Jobs |-> 0]]
    /\ UNCHANGED pvars
    /\ UNCHANGED <<graph, run_args, run_count, skipped, result>>
    /\ UNCHANGED cvars
    /\ UNCHANGED svars
    /\ UNCHANGED ovars
    /\ UNCHANGED dvars



(***************************************************************************)
(* Part 2.  The task pipeline (job_chain.py).                              *)
(*                                                                         *)
(* A queue is the sequence of the items put on it and not yet taken; put   *)
(* never blocks (mp.Queue() has no maxsize) and every item put is          *)
(* picklable.  A task is identified by the number of the submit_task call  *)
(* that created it (its jobchain_unique_id); NoneTask is the sentinel.     *)
(***************************************************************************)

NoneTask == 0

\* How the JobChain was constructed: without a result_processing_function,
\* with one and serial_processing=True, or with one and serial_processing=False.
Modes == {"none", "serial", "parallel"}

\* What the job's run does with a task: return a result, or raise.
Kinds == {"ok", "raise"}

\* The tasks submit_task has accepted so far.
Accepted == 1..nsub

\* job_name=None, or no 'job_name' key in the task dictionary.
NoName == "<none>"

\* A 'job_name' entry that is the empty string (or not a string).
EmptyName == ""

\* The keys of job_map, in insertion order, when n jobs were passed in.
JobMapKeys(n) == IF n = 1 THEN <<"J1">> ELSE <<"J1", "J2">>

JobMap(n) == SeqRange(JobMapKeys(n))

\* The numbers of jobs the pipeline is constructed with.
JobCounts == {1, 2}

\* The job_name arguments and the 'job_name' entries that are submitted
\* ("J9" is in no job_map, "J2" only in the job_map of two jobs).
ArgValues == {NoName, "J1", "J9"}

FieldValues == {NoName, EmptyName, "J2", "J9"}

SubmitErrors == {"MissingGraphName", "UnknownGraph"}

\* The name the caller gave: the job_name parameter takes precedence over
\* the entry of the task dictionary.
GivenName(arg, fld) == IF arg # NoName THEN arg ELSE fld

GivenClass(n, arg, fld) ==
    IF GivenName(arg, fld) \in {NoName, EmptyName} THEN "none"
    ELSE IF GivenName(arg, fld) \in JobMap(n) THEN "known"
    ELSE "unknown"

SubmitOutcomeNameAlwaysRequired(n, arg, fld) ==
    IF GivenName(arg, fld) \in {NoName, EmptyName} THEN "MissingGraphName"
    ELSE IF GivenName(arg, fld) \notin JobMap(n) THEN "UnknownGraph"
    ELSE GivenName(arg, fld)

\* submit_task's checks: the ValueError it runs into, or else the 'job_name'
\* of the Task it puts on the queue.
SubmitOutcome(n, arg, fld) ==
    IF arg # NoName /\ arg \notin JobMap(n) THEN "UnknownGraph"
    ELSE IF n > 1
         THEN IF GivenName(arg, fld) \in {NoName, EmptyName} THEN "MissingGraphName"
              ELSE IF GivenName(arg, fld) \notin JobMap(n) THEN "UnknownGraph"
              ELSE GivenName(arg, fld)
         ELSE Head(JobMapKeys(n))

\* task_dict['job_name'] when submit_task ends, by the put or by an exception:
\* the job_name parameter is written when it is known, the only job's name
\* when there is one job.
TaskDictJobName(n, arg, fld) ==
    IF arg # NoName /\ arg \notin JobMap(n) THEN fld
    ELSE IF n = 1 THEN Head(JobMapKeys(n))
    ELSE IF arg # NoName THEN arg
    ELSE fld

\* task_dict = task.copy(): submit_task writes into its own dict.
CopiesPayload == TRUE

\* The 'job_name' entry of the caller's dict after the call.
PayloadAfter(n, arg, fld) == IF CopiesPayload THEN fld ELSE TaskDictJobName(n, arg, fld)

\* The task queue after a submit_task that ran into an error: the checks come
\* before Task(task_dict) and the put.
AfterRejectedSubmitPut(q, t) == Append(q, t)

AfterRejectedSubmit(q, t) == q

\* submit_task catches every exception and logs it: none reaches the caller.
SubmitRaises(outcome) == FALSE

\* process_task: the only job when there is one, else job_map[job_name].
Dispatch(n, name) == IF n = 1 THEN Head(JobMapKeys(n)) ELSE name

\* mark_input_completed has returned.
Returned == cpc = "done"

WorkerAlive == wpc \in {"loop", "signalled"}

\* The worker died without having emitted the completion sentinel.
WorkerCrashed == wpc = "terminated" /\ sentinels_put = 0

\* __init__: _check_picklable is called when there is a sink and
\* serial_processing is False, and raises TypeError when pickle.dumps fails
\* on the sink or on one of its closure cells.
ConstructorRaises(m, p) == m = "parallel" /\ ~p

\* _start: the result processor process is started when there is a sink and
\* serial_processing is False.
StartsResultProcessorWithSink(m) == m # "none"

StartsResultProcessor(m) == m = "parallel"

\* JobChain.__init__ and _start: after the pre-flight check the queues are
\* created and the worker is started, and the result processor process too
\* when there is a sink and serial_processing is False.
Init ==
    /\ mode \in Modes
    /\ picklable \in (IF mode = "none" THEN {TRUE} ELSE BOOLEAN)
    /\ construct_error = ConstructorRaises(mode, picklable)
    /\ queues_created = ~construct_error
    /\ njobs = 1
    /\ job_collection = JobMapKeys(njobs)
    /\ job_map = IF construct_error THEN <<>> ELSE JobMapKeys(njobs)
    /\ job_name = [t \in Tasks |-> ""]
    /\ given = [t \in Tasks |-> "none"]
    /\ submit_errors = {}
    /\ raised_errors = {}
    /\ none_at = -1
    /\ payload = NoSubmit
    /\ dispatched = [t \in Tasks |-> ""]
    /\ completed = <<>>
    /\ sink_order = <<>>
    /\ sink_raised = {}
    /\ cleanup_calls = 0
    /\ task_queue = <<>>
    /\ result_queue = <<>>
    /\ nsub = 0
    /\ kind = [t \in Tasks |-> "unset"]
    /\ cpc = "submitting"
    /\ wpc = IF construct_error THEN "unstarted" ELSE "loop"
    /\ end_signal_received = FALSE
    /\ tasks = {}
    /\ tstate = [t \in Tasks |-> "none"]
    /\ rpc = IF StartsResultProcessor(mode) /\ ~construct_error THEN "running" ELSE "absent"
    /\ closed = FALSE
    /\ caller_error = FALSE
    /\ dequeued = <<>>
    /\ created_count = [t \in Tasks |-> 0]
    /\ results_put = [t \in Tasks |-> 0]
    /\ sentinels_put = 0
    /\ task_sentinels = 0
    /\ sink_calls = [t \in Tasks |-> 0]
    /\ serial_end = "none"
    /\ crash_call = FALSE
    /\ graph = graph_definition1
    /\ context = [t \in Tasks |-> "none"]
    /\ inputs_so_far = [k \in Tasks |-> EmptyInputs]
    /\ fired = [k \in Tasks |-> {}]
    /\ calls = [t \in Tasks |-> [j \in Jobs |-> 0]]
    /\ jstate = [t \in Tasks |-> [j \in Jobs |-> "idle"]]
    /\ run_args = [t \in Tasks |-> [j \in Jobs |-> {}]]
    /\ run_count = [t \in Tasks |-> [j \in Jobs |-> 0]]
    /\ skipped = [t \in Tasks |-> [j \in Jobs |-> 0]]
    /\ result = [t \in Tasks |-> {}]
    /\ dsl_obj = NoDsl
    /\ dsl_calls = <<>>
    /\ dsl_args = <<>>
    /\ precedence_graph = EmptyGraph
    /\ compile_result = "pending"
    /\ build_result = "pending"
    /\ built_head = ""
    /\ wired_next_jobs = EmptyGraph
    /\ wired_expected_inputs = EmptyGraph

(************************* the caller **************************************)

\* submit_task(task, job_name) with a task that is not None: the job name is
\* resolved and checked, and the Task is put on the task queue; a ValueError
\* raised on the way is caught and logged inside submit_task.
SubmitTask(k, arg, fld) ==
    /\ ~construct_error
    /\ cpc = "submitting"
    /\ nsub < MaxTasks
    /\ LET outcome == SubmitOutcome(njobs, arg, fld)
       IN  IF outcome \in SubmitErrors
           THEN /\ submit_errors' = submit_errors \cup {outcome}
                /\ raised_errors' = IF SubmitRaises(outcome)
                                    THEN raised_errors \cup {outcome}
                                    ELSE raised_errors
                /\ task_queue' = AfterRejectedSubmit(task_queue, nsub + 1)
                /\ UNCHANGED <<nsub, kind, crash_call, job_name, given>>
           ELSE /\ nsub' = nsub + 1
                /\ kind' = [kind EXCEPT ![nsub + 1] = k]
                /\ job_name' = [job_name EXCEPT ![nsub + 1] = outcome]
                /\ given' = [given EXCEPT ![nsub + 1] = GivenClass(njobs, arg, fld)]
                /\ task_queue' = Append(task_queue, nsub + 1)
                /\ crash_call' = (crash_call \/ WorkerCrashed)
                /\ UNCHANGED <<submit_errors, raised_errors>>
    /\ UNCHANGED evars
    /\ UNCHANGED <<mode, result_queue, cpc, wpc, end_signal_received, tasks,
                   tstate, rpc, closed, caller_error, dequeued, created_count,
                   results_put, sentinels_put, task_sentinels, sink_calls,
                   serial_end>>
    /\ payload' = [before |-> fld, after |-> PayloadAfter(njobs, arg, fld)]
    /\ UNCHANGED cvars
    /\ UNCHANGED <<none_at, dispatched>>
    /\ UNCHANGED ovars
    /\ UNCHANGED dvars

AfterSubmitNonePut(q) == Append(q, NoneTask)

\* The task queue after submit_task(None).
AfterSubmitNone(q) == q

\* submit_task(None): a warning is logged and nothing else happens.
SubmitNone ==
    /\ ~construct_error
    /\ cpc = "submitting"
    /\ task_queue' = AfterSubmitNone(task_queue)
    /\ none_at' = IF none_at = -1 THEN nsub ELSE none_at
    /\ UNCHANGED evars
    /\ UNCHANGED <<mode, result_queue, nsub, kind, cpc, wpc,
                   end_signal_received, tasks, tstate, rpc, closed,
                   caller_error, dequeued, created_count, results_put,
                   sentinels_put, task_sentinels, sink_calls, serial_end,
                   crash_call>>
    /\ UNCHANGED cvars
    /\ UNCHANGED <<job_name, given, submit_errors, raised_errors, dispatched, payload>>
    /\ UNCHANGED ovars
    /\ UNCHANGED dvars

\* mark_input_completed: None is put on the task queue, then
\* _wait_for_completion begins (with the serial drain loop when there is a
\* sink and serial_processing is True).
MarkInputCompleted ==
    /\ ~construct_error
    /\ cpc = "submitting"
    /\ task_queue' = Append(task_queue, NoneTask)
    /\ task_sentinels' = task_sentinels + 1
    /\ cpc' = IF mode = "serial" THEN "serial_get" ELSE "join_worker"
    /\ crash_call' = (crash_call \/ WorkerCrashed)
    /\ UNCHANGED evars
    /\ UNCHANGED <<mode, result_queue, nsub, kind, wpc, end_signal_received,
                   tasks, tstate, rpc, closed, caller_error, dequeued,
                   created_count, results_put, sentinels_put, sink_calls,
                   serial_end>>
    /\ UNCHANGED cvars
    /\ UNCHANGED svars
    /\ UNCHANGED ovars
    /\ UNCHANGED dvars

AfterSinkErrorStops(pc) == "crashed"

\* An exception of the sink is caught and logged inside the loop, which goes on.
AfterSinkError(pc) == pc

\* The sink is invoked with a result; an exception it raises is caught and logged.
SinkCall(sc, r) == [sc EXCEPT ![r] = @ + 1]

\* _process_serial_results, result_queue.get(timeout=0.1): a result is
\* passed to the sink, None ends the loop, and on an empty queue the get
\* times out.
SerialGet ==
    /\ cpc = "serial_get"
    /\ IF result_queue = <<>>
       THEN /\ cpc' = "serial_check"
            /\ UNCHANGED <<result_queue, sink_calls, sink_order, sink_raised, serial_end>>
       ELSE /\ result_queue' = Tail(result_queue)
            /\ IF Head(result_queue) = NoneTask
               THEN /\ cpc' = "join_worker"
                    /\ serial_end' = "sentinel"
                    /\ UNCHANGED <<sink_calls, sink_order, sink_raised>>
               ELSE /\ sink_calls' = SinkCall(sink_calls, Head(result_queue))
                    /\ sink_order' = Append(sink_order, Head(result_queue))
                    /\ \E e \in BOOLEAN :
                          /\ sink_raised' = IF e THEN sink_raised \cup {Head(result_queue)}
                                            ELSE sink_raised
                          /\ cpc' = IF e THEN AfterSinkError(cpc) ELSE cpc
                    /\ UNCHANGED serial_end
    /\ UNCHANGED evars
    /\ UNCHANGED <<mode, task_queue, nsub, kind, wpc, end_signal_received,
                   tasks, tstate, rpc, closed, caller_error, dequeued,
                   created_count, results_put, sentinels_put, task_sentinels,
                   crash_call>>
    /\ UNCHANGED cvars
    /\ UNCHANGED svars
    /\ UNCHANGED <<completed, cleanup_calls>>
    /\ UNCHANGED dvars

\* _process_serial_results, except queue.Empty: the loop goes on while the
\* worker is alive and is left when it is not.
SerialCheckAlive ==
    /\ cpc = "serial_check"
    /\ IF WorkerAlive
       THEN /\ cpc' = "serial_get"
            /\ UNCHANGED serial_end
       ELSE /\ cpc' = "join_worker"
            /\ serial_end' = "dead"
    /\ UNCHANGED evars
    /\ UNCHANGED <<mode, task_queue, result_queue, nsub, kind, wpc,
                   end_signal_received, tasks, tstate, rpc, closed,
                   caller_error, dequeued, created_count, results_put,
                   sentinels_put, task_sentinels, sink_calls, crash_call>>
    /\ UNCHANGED cvars
    /\ UNCHANGED svars
    /\ UNCHANGED ovars
    /\ UNCHANGED dvars

JoinWorkerNoWait == TRUE

\* job_executor_process.join() returns once the worker is not alive.
JoinWorkerReturns == ~WorkerAlive

\* _wait_for_completion: if the worker is alive, join it.
JoinWorker ==
    /\ cpc = "join_worker"
    /\ JoinWorkerReturns
    /\ cpc' = "join_rp"
    /\ UNCHANGED evars
    /\ UNCHANGED <<mode, task_queue, result_queue, nsub, kind, wpc,
                   end_signal_received, tasks, tstate, rpc, closed,
                   caller_error, dequeued, created_count, results_put,
                   sentinels_put, task_sentinels, sink_calls, serial_end,
                   crash_call>>
    /\ UNCHANGED cvars
    /\ UNCHANGED svars
    /\ UNCHANGED ovars
    /\ UNCHANGED dvars

\* _wait_for_completion: if there is a result processor and it is alive, join it.
JoinResultProcessor ==
    /\ cpc = "join_rp"
    /\ rpc # "running"
    /\ cpc' = "cleanup"
    /\ UNCHANGED evars
    /\ UNCHANGED <<mode, task_queue, result_queue, nsub, kind, wpc,
                   end_signal_received, tasks, tstate, rpc, closed,
                   caller_error, dequeued, created_count, results_put,
                   sentinels_put, task_sentinels, sink_calls, serial_end,
                   crash_call>>
    /\ UNCHANGED cvars
    /\ UNCHANGED svars
    /\ UNCHANGED ovars
    /\ UNCHANGED dvars

\* The number of explicit _cleanup calls.
MaxCleanups == 2

StopWorkerLeavesAlive(w) == w

\* _cleanup: a job executor process that is alive is terminated and joined.
StopWorker(w) == IF w \in {"loop", "signalled"} THEN "killed" ELSE w

\* _cleanup: a result processor process that is alive is terminated and joined.
StopResultProcessor(r) == IF r = "running" THEN "killed" ELSE r

CleanupRaisesWhenClosed(c) == c

\* _cleanup on queues that are already closed: close() and join_thread() of
\* a closed mp.Queue do nothing and raise nothing.
CleanupRaises(c) == FALSE

\* _cleanup at the end of _wait_for_completion: a process that is still
\* alive is terminated and joined, and both queues are closed.
Cleanup ==
    /\ cpc = "cleanup"
    /\ wpc' = StopWorker(wpc)
    /\ rpc' = StopResultProcessor(rpc)
    /\ caller_error' = (caller_error \/ CleanupRaises(closed))
    /\ cleanup_calls' = cleanup_calls + 1
    /\ closed' = TRUE
    /\ cpc' = "done"
    /\ UNCHANGED evars
    /\ UNCHANGED <<mode, task_queue, result_queue, nsub, kind,
                   end_signal_received, tasks, tstate, dequeued,
                   created_count, results_put, sentinels_put, task_sentinels,
                   sink_calls, serial_end, crash_call>>
    /\ UNCHANGED cvars
    /\ UNCHANGED svars
    /\ UNCHANGED <<completed, sink_order, sink_raised>>
    /\ UNCHANGED dvars

\* _cleanup called by the user of the JobChain, while tasks are submitted
\* (tests/test_error_conditions.py, test_resource_cleanup) or after
\* mark_input_completed has returned.
CleanupCall ==
    /\ ~construct_error
    /\ cpc \in {"submitting", "cleaned", "done"}
    /\ cleanup_calls < MaxCleanups
    /\ wpc' = StopWorker(wpc)
    /\ rpc' = StopResultProcessor(rpc)
    /\ caller_error' = (caller_error \/ CleanupRaises(closed))
    /\ closed' = TRUE
    /\ cpc' = IF cpc = "submitting" THEN "cleaned" ELSE cpc
    /\ cleanup_calls' = cleanup_calls + 1
    /\ UNCHANGED evars
    /\ UNCHANGED <<mode, task_queue, result_queue, nsub, kind,
                   end_signal_received, tasks, tstate, dequeued,
                   created_count, results_put, sentinels_put, task_sentinels,
                   sink_calls, serial_end, crash_call>>
    /\ UNCHANGED cvars
    /\ UNCHANGED svars
    /\ UNCHANGED <<completed, sink_order, sink_raised>>
    /\ UNCHANGED dvars

\* job_executor_process.terminate() from outside (tests/test_error_conditions.py,
\* test_process_termination).
Terminate ==
    /\ WorkerAlive
    /\ ~closed
    /\ wpc' = "terminated"
    /\ UNCHANGED evars
    /\ UNCHANGED <<mode, task_queue, result_queue, nsub, kind, cpc,
                   end_signal_received, tasks, tstate, rpc, closed,
                   caller_error, dequeued, created_count, results_put,
                   sentinels_put, task_sentinels, sink_calls, serial_end,
                   crash_call>>
    /\ UNCHANGED cvars
    /\ UNCHANGED svars
    /\ UNCHANGED ovars
    /\ UNCHANGED dvars

(************************* the worker **************************************)

GotSentinel(q) == \E i \in DOMAIN q : q[i] = NoneTask

FirstNone(q) == CHOOSE i \in DOMAIN q : q[i] = NoneTask /\ \A j \in 1..(i - 1) : q[j] # NoneTask

PendingOfDropsBatch(q) == IF GotSentinel(q) THEN <<>> ELSE q

\* The inner loop of queue_monitor: every task got before the queue is
\* empty or None is got is appended to pending_tasks.
PendingOf(q) == IF GotSentinel(q) THEN SubSeq(q, 1, FirstNone(q) - 1) ELSE q

\* What the inner loop leaves on the task queue.
RestOf(q) == IF GotSentinel(q) THEN SubSeq(q, FirstNone(q) + 1, Len(q)) ELSE <<>>

DoneTasksEveryTask(ts, st) == ts

DoneTasks(ts, st) == {t \in ts : st[t] \in {"returned", "raised"}}

\* One iteration of queue_monitor's outer loop: the task queue is drained up
\* to the end signal, a process_task is created for every pending task, and
\* the tasks that are done are removed from the set.
QueueMonitor ==
    /\ wpc = "loop"
    /\ ~end_signal_received \/ tasks # {}
    /\ LET pending == PendingOf(task_queue)
           new == SeqRange(pending)
       IN  /\ task_queue' = RestOf(task_queue)
           /\ end_signal_received' = (end_signal_received \/ GotSentinel(task_queue))
           /\ dequeued' = dequeued \o pending
           /\ tstate' = [t \in Tasks |-> IF t \in new THEN "created" ELSE tstate[t]]
           /\ created_count' = [t \in Tasks |-> IF t \in new THEN created_count[t] + 1
                                                ELSE created_count[t]]
           /\ tasks' = (tasks \cup new) \ DoneTasks(tasks \cup new, tstate')
    /\ UNCHANGED evars
    /\ UNCHANGED <<mode, result_queue, nsub, kind, cpc, wpc, rpc, closed,
                   caller_error, results_put, sentinels_put, task_sentinels,
                   sink_calls, serial_end, crash_call>>
    /\ UNCHANGED cvars
    /\ UNCHANGED svars
    /\ UNCHANGED ovars
    /\ UNCHANGED dvars

CanStartWhenNoneRuns(t) ==
    tstate[t] = "created" /\ \A u \in Tasks : tstate[u] # "running"

\* asyncio.create_task(process_task(...)): the event loop runs a created
\* task at its next tick, whatever the other tasks are doing.
CanStart(t) == tstate[t] = "created"

\* process_task begins: job._execute(task) is awaited.
ProcessTaskStart(t) ==
    /\ wpc = "loop"
    /\ CanStart(t)
    /\ LET job == Dispatch(njobs, job_name[t])
       IN  IF job \in JobMap(njobs)
           THEN /\ tstate' = [tstate EXCEPT ![t] = "running"]
                /\ dispatched' = [dispatched EXCEPT ![t] = job]
           ELSE /\ tstate' = [tstate EXCEPT ![t] = "raised"]
                /\ UNCHANGED dispatched
    /\ UNCHANGED evars
    /\ UNCHANGED <<mode, task_queue, result_queue, nsub, kind, cpc, wpc,
                   end_signal_received, tasks, rpc, closed, caller_error,
                   dequeued, created_count, results_put, sentinels_put,
                   task_sentinels, sink_calls, serial_end, crash_call>>
    /\ UNCHANGED cvars
    /\ UNCHANGED <<job_name, given, submit_errors, raised_errors, none_at, payload>>
    /\ UNCHANGED ovars
    /\ UNCHANGED dvars

PutResultInSubmissionOrder(q, t) ==
    SelectSeq(q, LAMBDA x : x < t) \o <<t>> \o SelectSeq(q, LAMBDA x : x > t)

\* result_queue.put(result): the queue is FIFO.
PutResult(q, t) == Append(q, t)

\* job._execute returns: the result is put on the result queue at once.
ProcessTaskReturn(t) ==
    /\ wpc = "loop"
    /\ tstate[t] = "running"
    /\ kind[t] = "ok"
    /\ tstate' = [tstate EXCEPT ![t] = "returned"]
    /\ result_queue' = PutResult(result_queue, t)
    /\ completed' = Append(completed, t)
    /\ UNCHANGED <<sink_order, sink_raised, cleanup_calls>>
    /\ results_put' = [results_put EXCEPT ![t] = @ + 1]
    /\ UNCHANGED evars
    /\ UNCHANGED <<mode, task_queue, nsub, kind, cpc, wpc,
                   end_signal_received, tasks, rpc, closed, caller_error,
                   dequeued, created_count, sentinels_put, task_sentinels,
                   sink_calls, serial_end, crash_call>>
    /\ UNCHANGED cvars
    /\ UNCHANGED svars
    /\ UNCHANGED dvars

WorkerAfterRaiseCrashes == "exited"

\* The exception of a process_task stays in its asyncio task; the worker goes on.
WorkerAfterRaise == wpc

\* job._execute raises: the error is logged and re-raised in the asyncio
\* task; nothing is put on the result queue.
ProcessTaskRaise(t) ==
    /\ wpc = "loop"
    /\ tstate[t] = "running"
    /\ kind[t] = "raise"
    /\ tstate' = [tstate EXCEPT ![t] = "raised"]
    /\ wpc' = WorkerAfterRaise
    /\ UNCHANGED evars
    /\ UNCHANGED <<mode, task_queue, result_queue, nsub, kind, cpc,
                   end_signal_received, tasks, rpc, closed, caller_error,
                   dequeued, created_count, results_put, sentinels_put,
                   task_sentinels, sink_calls, serial_end, crash_call>>
    /\ UNCHANGED cvars
    /\ UNCHANGED svars
    /\ UNCHANGED ovars
    /\ UNCHANGED dvars

SignalForgotten(q) == q

\* result_queue.put(None)
SignalCompletion(q) == Append(q, NoneTask)

\* queue_monitor after its loop: no task is left to gather (the loop ends
\* only with an empty set), and None is put on the result queue.
LoopExit ==
    /\ wpc = "loop"
    /\ end_signal_received /\ tasks = {}
    /\ result_queue' = SignalCompletion(result_queue)
    /\ sentinels_put' = sentinels_put + 1
    /\ wpc' = "signalled"
    /\ UNCHANGED evars
    /\ UNCHANGED <<mode, task_queue, nsub, kind, cpc, end_signal_received,
                   tasks, tstate, rpc, closed, caller_error, dequeued,
                   created_count, results_put, task_sentinels, sink_calls,
                   serial_end, crash_call>>
    /\ UNCHANGED cvars
    /\ UNCHANGED svars
    /\ UNCHANGED ovars
    /\ UNCHANGED dvars

\* _async_worker returns: the event loop is closed and the process ends.
WorkerExit ==
    /\ wpc = "signalled"
    /\ wpc' = "exited"
    /\ UNCHANGED evars
    /\ UNCHANGED <<mode, task_queue, result_queue, nsub, kind, cpc,
                   end_signal_received, tasks, tstate, rpc, closed,
                   caller_error, dequeued, created_count, results_put,
                   sentinels_put, task_sentinels, sink_calls, serial_end,
                   crash_call>>
    /\ UNCHANGED cvars
    /\ UNCHANGED svars
    /\ UNCHANGED ovars
    /\ UNCHANGED dvars

(************************* the result processor ****************************)

\* _result_processor: result_queue.get() blocks until there is an item; None
\* ends the loop, any other result is passed to the sink.
ResultProcessor ==
    /\ rpc = "running"
    /\ result_queue # <<>>
    /\ result_queue' = Tail(result_queue)
    /\ IF Head(result_queue) = NoneTask
       THEN /\ rpc' = "returned"
            /\ UNCHANGED <<sink_calls, sink_order, sink_raised>>
       ELSE /\ sink_calls' = SinkCall(sink_calls, Head(result_queue))
            /\ sink_order' = Append(sink_order, Head(result_queue))
            /\ \E e \in BOOLEAN :
                  /\ sink_raised' = IF e THEN sink_raised \cup {Head(result_queue)}
                                    ELSE sink_raised
                  /\ rpc' = IF e THEN AfterSinkError(rpc) ELSE rpc
    /\ UNCHANGED evars
    /\ UNCHANGED <<mode, task_queue, nsub, kind, cpc, wpc,
                   end_signal_received, tasks, tstate, closed, caller_error,
                   dequeued, created_count, results_put, sentinels_put,
                   task_sentinels, serial_end, crash_call>>
    /\ UNCHANGED cvars
    /\ UNCHANGED svars
    /\ UNCHANGED <<completed, cleanup_calls>>
    /\ UNCHANGED dvars

(************************* specifications **********************************)

NextEngine ==
    \/ \E t \in Tasks : Arrive(t)
    \/ \E t \in Tasks, j \in Jobs : Execute(t, j)
    \/ \E t \in Tasks, j \in Jobs : RunReturn(t, j)
    \/ \E t \in Tasks, j \in Jobs : RunRaise(t, j)

SpecEngine == InitEngine /\ [][NextEngine]_vars

\* The engine when no job's run raises.
NextEngineNoRaise ==
    \/ \E t \in Tasks : Arrive(t)
    \/ \E t \in Tasks, j \in Jobs : Execute(t, j)
    \/ \E t \in Tasks, j \in Jobs : RunReturn(t, j)

\* The cooperative scheduler runs every _execute call that was made, and
\* every run that was started returns.
EngineFairness ==
    /\ \A t \in Tasks, j \in Jobs : WF_vars(Execute(t, j))
    /\ \A t \in Tasks, j \in Jobs : WF_vars(RunReturn(t, j))

FairSpecEngine == InitEngine /\ [][NextEngineNoRaise]_vars /\ EngineFairness

\* The steps of the pipeline's processes when nothing kills the worker.
NextNoCrash ==
    \/ \E k \in Kinds : SubmitTask(k, NoName, NoName)
    \/ SubmitNone
    \/ MarkInputCompleted
    \/ SerialGet
    \/ SerialCheckAlive
    \/ JoinWorker
    \/ JoinResultProcessor
    \/ Cleanup
    \/ QueueMonitor
    \/ \E t \in Tasks : ProcessTaskStart(t)
    \/ \E t \in Tasks : ProcessTaskReturn(t)
    \/ \E t \in Tasks : ProcessTaskRaise(t)
    \/ LoopExit
    \/ WorkerExit
    \/ ResultProcessor

Next ==
    \/ NextNoCrash
    \/ Terminate
    \/ CleanupCall

\* The pipeline constructed with one job or with two, without a sink.
InitSubmit ==
    /\ mode = "none"
    /\ picklable \in (IF mode = "none" THEN {TRUE} ELSE BOOLEAN)
    /\ construct_error = ConstructorRaises(mode, picklable)
    /\ queues_created = ~construct_error
    /\ njobs \in JobCounts
    /\ job_collection = JobMapKeys(njobs)
    /\ job_map = IF construct_error THEN <<>> ELSE JobMapKeys(njobs)
    /\ job_name = [t \in Tasks |-> ""]
    /\ given = [t \in Tasks |-> "none"]
    /\ submit_errors = {}
    /\ raised_errors = {}
    /\ none_at = -1
    /\ payload = NoSubmit
    /\ dispatched = [t \in Tasks |-> ""]
    /\ completed = <<>>
    /\ sink_order = <<>>
    /\ sink_raised = {}
    /\ cleanup_calls = 0
    /\ task_queue = <<>>
    /\ result_queue = <<>>
    /\ nsub = 0
    /\ kind = [t \in Tasks |-> "unset"]
    /\ cpc = "submitting"
    /\ wpc = IF construct_error THEN "unstarted" ELSE "loop"
    /\ end_signal_received = FALSE
    /\ tasks = {}
    /\ tstate = [t \in Tasks |-> "none"]
    /\ rpc = IF StartsResultProcessor(mode) /\ ~construct_error THEN "running" ELSE "absent"
    /\ closed = FALSE
    /\ caller_error = FALSE
    /\ dequeued = <<>>
    /\ created_count = [t \in Tasks |-> 0]
    /\ results_put = [t \in Tasks |-> 0]
    /\ sentinels_put = 0
    /\ task_sentinels = 0
    /\ sink_calls = [t \in Tasks |-> 0]
    /\ serial_end = "none"
    /\ crash_call = FALSE
    /\ graph = graph_definition1
    /\ context = [t \in Tasks |-> "none"]
    /\ inputs_so_far = [k \in Tasks |-> EmptyInputs]
    /\ fired = [k \in Tasks |-> {}]
    /\ calls = [t \in Tasks |-> [j \in Jobs |-> 0]]
    /\ jstate = [t \in Tasks |-> [j \in Jobs |-> "idle"]]
    /\ run_args = [t \in Tasks |-> [j \in Jobs |-> {}]]
    /\ run_count = [t \in Tasks |-> [j \in Jobs |-> 0]]
    /\ skipped = [t \in Tasks |-> [j \in Jobs |-> 0]]
    /\ result = [t \in Tasks |-> {}]
    /\ dsl_obj = NoDsl
    /\ dsl_calls = <<>>
    /\ dsl_args = <<>>
    /\ precedence_graph = EmptyGraph
    /\ compile_result = "pending"
    /\ build_result = "pending"
    /\ built_head = ""
    /\ wired_next_jobs = EmptyGraph
    /\ wired_expected_inputs = EmptyGraph

\* submit_task called with and without the job_name parameter and the
\* 'job_name' entry, and the execution of the tasks it accepted.
NextSubmit ==
    \/ \E arg \in ArgValues, fld \in FieldValues : SubmitTask("ok", arg, fld)
    \/ SubmitNone
    \/ MarkInputCompleted
    \/ JoinWorker
    \/ JoinResultProcessor
    \/ Cleanup
    \/ QueueMonitor
    \/ \E t \in Tasks : ProcessTaskStart(t)
    \/ \E t \in Tasks : ProcessTaskReturn(t)
    \/ LoopExit
    \/ WorkerExit

SpecSubmit == InitSubmit /\ [][NextSubmit]_vars

\* An item of the collection that is not a JobABC instance.
NotAJob == "<not a job>"

\* if j.name in self.job_map: raise ValueError("Duplicate job name found")
DuplicateNeverFound(map, name) == FALSE

DuplicateFound(map, name) == name \in SeqRange(map)

\* for j in job: the jobs are entered into job_map under their names.
RECURSIVE InsertJobs(_, _, _)
InsertJobs(coll, i, map) ==
    IF i > Len(coll) THEN [error |-> FALSE, map |-> map]
    ELSE IF DuplicateFound(map, coll[i]) THEN [error |-> TRUE, map |-> map]
    ELSE InsertJobs(coll, i + 1,
                    IF coll[i] \in SeqRange(map) THEN map ELSE Append(map, coll[i]))

\* __init__ with a collection of jobs: what it raises, "ok" when it raises nothing.
ConstructOutcome(m, p, coll) ==
    IF ConstructorRaises(m, p) THEN "NotPicklable"
    ELSE IF coll = <<>> THEN "EmptyCollection"
    ELSE IF NotAJob \in SeqRange(coll) THEN "NotAJob"
    ELSE IF InsertJobs(coll, 1, <<>>).error THEN "DuplicateName"
    ELSE "ok"

\* The collections of jobs the pipeline is constructed from.
Collections ==
    {<<>>, <<"J1">>, <<"J1", "J2">>, <<"J2", "J1">>, <<"J1", "J1">>, <<"J1", "J2", "J1">>,
     <<NotAJob>>, <<"J1", NotAJob>>, <<NotAJob, "J1">>, <<"J1", "J1", NotAJob>>}

\* JobChain.__init__ given a collection of jobs.
InitConstruct ==
    /\ mode \in Modes
    /\ picklable \in (IF mode = "none" THEN {TRUE} ELSE BOOLEAN)
    /\ job_collection \in Collections
    /\ construct_error = (ConstructOutcome(mode, picklable, job_collection) # "ok")
    /\ queues_created = ~construct_error
    /\ job_map = IF construct_error THEN <<>> ELSE InsertJobs(job_collection, 1, <<>>).map
    /\ njobs = Len(job_map)
    /\ job_name = [t \in Tasks |-> ""]
    /\ given = [t \in Tasks |-> "none"]
    /\ submit_errors = {}
    /\ raised_errors = {}
    /\ none_at = -1
    /\ payload = NoSubmit
    /\ dispatched = [t \in Tasks |-> ""]
    /\ completed = <<>>
    /\ sink_order = <<>>
    /\ sink_raised = {}
    /\ cleanup_calls = 0
    /\ task_queue = <<>>
    /\ result_queue = <<>>
    /\ nsub = 0
    /\ kind = [t \in Tasks |-> "unset"]
    /\ cpc = "submitting"
    /\ wpc = IF construct_error THEN "unstarted" ELSE "loop"
    /\ end_signal_received = FALSE
    /\ tasks = {}
    /\ tstate = [t \in Tasks |-> "none"]
    /\ rpc = IF StartsResultProcessor(mode) /\ ~construct_error THEN "running" ELSE "absent"
    /\ closed = FALSE
    /\ caller_error = FALSE
    /\ dequeued = <<>>
    /\ created_count = [t \in Tasks |-> 0]
    /\ results_put = [t \in Tasks |-> 0]
    /\ sentinels_put = 0
    /\ task_sentinels = 0
    /\ sink_calls = [t \in Tasks |-> 0]
    /\ serial_end = "none"
    /\ crash_call = FALSE
    /\ graph = graph_definition1
    /\ context = [t \in Tasks |-> "none"]
    /\ inputs_so_far = [k \in Tasks |-> EmptyInputs]
    /\ fired = [k \in Tasks |-> {}]
    /\ calls = [t \in Tasks |-> [j \in Jobs |-> 0]]
    /\ jstate = [t \in Tasks |-> [j \in Jobs |-> "idle"]]
    /\ run_args = [t \in Tasks |-> [j \in Jobs |-> {}]]
    /\ run_count = [t \in Tasks |-> [j \in Jobs |-> 0]]
    /\ skipped = [t \in Tasks |-> [j \in Jobs |-> 0]]
    /\ result = [t \in Tasks |-> {}]
    /\ dsl_obj = NoDsl
    /\ dsl_calls = <<>>
    /\ dsl_args = <<>>
    /\ precedence_graph = EmptyGraph
    /\ compile_result = "pending"
    /\ build_result = "pending"
    /\ built_head = ""
    /\ wired_next_jobs = EmptyGraph
    /\ wired_expected_inputs = EmptyGraph

\* The pipeline constructed from a collection of jobs, and used when the
\* constructor raised nothing.
SpecConstruct == InitConstruct /\ [][NextSubmit]_vars

Spec == Init /\ [][Next]_vars

\* Every process that can take a step eventually takes one: the operating
\* system schedules the three processes, the event loop schedules
\* queue_monitor and every process_task, and run and the sink terminate.
\* submit_task and mark_input_completed are called when the caller chooses.
Fairness ==
    /\ WF_vars(SerialGet)
    /\ WF_vars(SerialCheckAlive)
    /\ WF_vars(JoinWorker)
    /\ WF_vars(JoinResultProcessor)
    /\ WF_vars(Cleanup)
    /\ WF_vars(QueueMonitor)
    /\ \A t \in Tasks : WF_vars(ProcessTaskStart(t))
    /\ \A t \in Tasks : WF_vars(ProcessTaskReturn(t))
    /\ \A t \in Tasks : WF_vars(ProcessTaskRaise(t))
    /\ WF_vars(LoopExit)
    /\ WF_vars(WorkerExit)
    /\ WF_vars(ResultProcessor)

FairSpec == Init /\ [][NextNoCrash]_vars /\ Fairness

\* The schedulers are fair to the worker's queue_monitor and to the start of
\* every created process_task, but a run may stay suspended for ever.
FairnessOfStart ==
    /\ WF_vars(QueueMonitor)
    /\ \A t \in Tasks : WF_vars(ProcessTaskStart(t))

FairStartSpec == Init /\ [][NextNoCrash]_vars /\ FairnessOfStart

\* The constructor's pre-flight check: with an unpicklable sink in parallel
\* mode __init__ raises before the queues exist and before a process is
\* started; in every other case the pipeline is constructed.
ConstructorGate ==
    IF mode = "parallel" /\ ~picklable
    THEN /\ construct_error
         /\ ~queues_created
         /\ wpc = "unstarted" /\ rpc = "absent"
         /\ nsub = 0 /\ task_queue = <<>> /\ result_queue = <<>>
    ELSE /\ ~construct_error
         /\ queues_created
         /\ wpc # "unstarted"

\* C14: constructing the pipeline in parallel mode with a sink that cannot
\* be serialized raises from the constructor, before the queues are created
\* and before the worker or the result processor is started; with the same
\* sink in serial mode the construction succeeds and the tasks drain through
\* the sink: when mark_input_completed returns every task whose run returned
\* has been passed to the sink once.
C14_SerializationGating ==
    /\ ConstructorGate
    /\ (mode = "serial" /\ ~picklable /\ Returned /\ wpc = "exited")
          => \A t \in Accepted : kind[t] = "ok" => sink_calls[t] = 1

(***************************************************************************)
(* Properties of the execution engine (checked under SpecEngine).          *)
(***************************************************************************)

RECURSIVE Upstream(_, _)
Upstream(j, n) ==
    IF n = 0 THEN {}
    ELSE expected_inputs(j) \cup UNION {Upstream(p, n - 1) : p \in expected_inputs(j)}

C5_SinkExactlyOnce ==
    (Returned /\ mode # "none" /\ wpc = "exited")
        => \A t \in Accepted : kind[t] = "ok" => sink_calls[t] = 1

C7_ReturnsAfterDrain ==
    /\ cpc \notin {"submitting", "cleaned"} => task_sentinels = 1
    /\ Returned =>
          /\ wpc \in {"exited", "terminated"}
          /\ rpc \in {"absent", "returned"}
          /\ mode = "parallel" => (rpc = "returned" /\ sentinels_put = 1
                                     /\ result_queue = <<>>)

\* mark_input_completed has returned in parallel mode after every submitted
\* task was executed.
C7_Witness ==
    /\ Returned
    /\ mode = "parallel"
    /\ nsub = MaxTasks
    /\ \A t \in Accepted : tstate[t] \in {"returned", "raised"}

C9_NoTaskDropped ==
    /\ \A i \in DOMAIN task_queue : task_queue[i] = NoneTask => i = Len(task_queue)
    /\ \A t \in Tasks : created_count[t] <= 1
    /\ \A i \in DOMAIN dequeued : dequeued[i] = i
    /\ end_signal_received => Len(dequeued) = nsub
    /\ wpc \in {"signalled", "exited"} =>
          \A t \in Accepted : created_count[t] = 1 /\ tstate[t] \in {"returned", "raised"}

\* The worker has exited after executing every one of MaxTasks submitted tasks.
C9_Witness ==
    /\ wpc = "exited"
    /\ nsub = MaxTasks
    /\ dequeued = [i \in 1..MaxTasks |-> i]
    /\ \A t \in Accepted : created_count[t] = 1

\* mark_input_completed waits for a result processor that will never get a sentinel.
BlockedForever ==
    /\ cpc = "join_rp"
    /\ rpc = "running"
    /\ wpc = "terminated"
    /\ result_queue = <<>>

\* C10: if the worker dies without having emitted the completion sentinel,
\* the next call of submit_task or mark_input_completed reports the failure
\* to the caller: the call neither returns silently nor blocks forever.
C10_CrashSurfaces ==
    /\ (crash_call /\ cpc \in {"submitting", "done"}) => caller_error
    /\ ~BlockedForever

\* C15: submit_task with a null task is rejected with no state change:
\* nothing is put on the task queue, so a null submitted by a caller is never
\* taken by the worker as the end-of-input sentinel (the worker's end signal
\* is the one None that mark_input_completed put), and the tasks submitted
\* afterwards are still processed.
C15_NullSubmitNoStateChange ==
    /\ [][none_at' # none_at =>
             UNCHANGED <<evars, pvars, cvars, job_name, given, submit_errors,
                         raised_errors, dispatched>>]_vars
    /\ [](\A i \in DOMAIN task_queue : task_queue[i] = NoneTask => cpc # "submitting")
    /\ [](end_signal_received => (task_sentinels = 1 /\ cpc # "submitting"))
    /\ [](wpc \in {"signalled", "exited"} =>
             \A t \in Accepted : created_count[t] = 1
                                   /\ tstate[t] \in {"returned", "raised"})

\* submit_task(None) was called before any task was submitted; MaxTasks tasks
\* were submitted after it and the worker has executed them all and exited.
C15_Witness ==
    /\ none_at = 0
    /\ nsub = MaxTasks
    /\ wpc = "exited"
    /\ \A t \in Accepted : tstate[t] = "returned" /\ results_put[t] = 1

(***************************************************************************)
(* Properties of submit_task's name resolution (checked under SpecSubmit). *)
(***************************************************************************)

\* C16: when more than one graph is loaded and a task is submitted with no
\* graph name (neither the job_name argument nor a non-empty string in the
\* task's 'job_name' entry), submit_task raises an error to its caller: the
\* error that occurs in the call reaches the caller, and no task is accepted
\* without a name.
C16_MissingNameRaises ==
    njobs > 1 =>
        /\ "MissingGraphName" \in submit_errors => "MissingGraphName" \in raised_errors
        /\ \A t \in Accepted : given[t] # "none"

\* C17: a submit that names a graph that is not in the registry, through the
\* job_name argument or through the task's 'job_name' entry, with one graph
\* loaded or with several, is an error: the task is not enqueued and is not
\* dispatched to any graph.
C17_UnknownNameRejected ==
    \A t \in Tasks :
        given[t] = "unknown" => (t \notin Accepted /\ dispatched[t] = "")

\* With several graphs loaded an unknown name is never accepted (the part of
\* C17 the code satisfies).
UnknownNameRejectedWhenSeveral ==
    njobs > 1 => \A t \in Accepted : given[t] = "known" /\ job_name[t] \in JobMap(njobs)

\* C18: when exactly one graph is loaded and submit_task is called without a
\* graph name, the task is accepted (no missing-name error occurs), enqueued
\* under the name of the single graph, and executed by that graph.
C18_SingleGraphDefault ==
    njobs = 1 =>
        /\ "MissingGraphName" \notin (submit_errors \cup raised_errors)
        /\ \A t \in Accepted :
              given[t] = "none" =>
                  /\ job_name[t] = Head(JobMapKeys(1))
                  /\ t \in SeqRange(task_queue) \/ t \in SeqRange(dequeued)
                  /\ tstate[t] \in {"running", "returned"} =>
                        dispatched[t] = Head(JobMapKeys(1))
                  /\ tstate[t] # "raised"
                  /\ wpc \in {"signalled", "exited"} =>
                        (tstate[t] = "returned" /\ results_put[t] = 1)

\* With one graph loaded, every task was submitted without a name, and the
\* worker has executed them all on that graph and exited.
C18_Witness ==
    /\ njobs = 1
    /\ nsub = MaxTasks
    /\ wpc = "exited"
    /\ \A t \in Accepted :
          /\ given[t] = "none"
          /\ tstate[t] = "returned"
          /\ dispatched[t] = "J1"

(***************************************************************************)
(* Further properties of the task pipeline (checked under Spec).           *)
(***************************************************************************)

\* C19: the worker puts exactly one completion sentinel on the result queue
\* (never a second one, and one whenever it stops by itself), and only after
\* it has received the input sentinel and every task execution it started
\* has finished; no task result is enqueued on the result queue after the
\* completion sentinel.
C19_OneFinalSentinel ==
    /\ [](sentinels_put <= 1)
    /\ [](wpc \in {"signalled", "exited"} => sentinels_put = 1)
    /\ [](sentinels_put = 1 =>
             /\ end_signal_received
             /\ tasks = {}
             /\ \A t \in Tasks : created_count[t] > 0 => tstate[t] \in {"returned", "raised"})
    /\ [](\A i \in DOMAIN result_queue :
             result_queue[i] = NoneTask => i = Len(result_queue))
    /\ [][sentinels_put = 1 => results_put' = results_put]_vars

\* Without a sink, the result queue holds the results of all MaxTasks tasks
\* followed by the completion sentinel.
C19_Witness ==
    /\ sentinels_put = 1
    /\ Len(result_queue) = MaxTasks + 1
    /\ result_queue[MaxTasks + 1] = NoneTask
    /\ \A t \in Tasks : t \in SeqRange(result_queue)

\* The results on the result queue, in queue order.
QueuedResults == SelectSeq(result_queue, LAMBDA x : x # NoneTask)

\* C20: results are emitted in completion order, not submission order: the
\* result of a task is put on the result queue in the very step in which its
\* run returns, so the results reach the queue, and the sink, in the order
\* in which the runs finished, also when a task submitted later finishes
\* first.
C20_CompletionOrder ==
    /\ [](sink_order \o QueuedResults = completed)
    /\ [][completed' # completed =>
             result_queue' = Append(result_queue, completed'[Len(completed')])]_vars

\* The task submitted second finished first, and its result reached the
\* sink before the result of the task submitted first.
C20_Witness ==
    /\ completed = <<2, 1>>
    /\ sink_order = <<2, 1>>
    /\ dequeued = <<1, 2>>

\* C21: the worker keeps many task executions in flight at once: every task
\* put on the task queue is eventually started, without any assumption that
\* the runs started earlier ever finish, so a task suspended inside its run
\* never delays the start of a task submitted later.
C21_ManyInFlight ==
    \A t \in Tasks :
        (t \in SeqRange(task_queue)) ~> (tstate[t] \in {"running", "returned", "raised"})

\* All MaxTasks tasks are inside their run at the same time.
C21_Witness ==
    /\ nsub = MaxTasks
    /\ \A t \in Tasks : tstate[t] = "running"
    /\ Cardinality(tasks) = MaxTasks

\* The containment of a sink exception in parallel mode: the result
\* processor returns only by reading the sentinel, and when
\* mark_input_completed has returned every result has been passed to the sink.
SinkErrorContainedParallel ==
    /\ rpc \in {"running", "returned", "absent", "killed"}
    /\ rpc = "returned" => (sentinels_put = 1 /\ result_queue = <<>>)
    /\ (Returned /\ mode = "parallel") =>
          \A t \in Accepted : kind[t] = "ok" => sink_calls[t] = 1

\* C22: an exception raised by the sink while processing one result is
\* contained: in parallel and in serial mode the results that come after it
\* are still passed to the sink, the loop stops only at the completion
\* sentinel, and mark_input_completed still returns.
C22_SinkErrorContained ==
    /\ [](SinkErrorContainedParallel)
    /\ [](sink_raised # {} => serial_end \in {"none", "sentinel"})
    /\ []((sink_raised # {} /\ Returned /\ mode = "serial") =>
             \A t \in Accepted : kind[t] = "ok" => sink_calls[t] = 1)
    /\ (sink_raised # {} /\ cpc # "submitting") ~> Returned

\* mark_input_completed returns although the sink raised (the part of C22
\* that concerns the return).
SinkErrorStillReturns ==
    (sink_raised # {} /\ cpc # "submitting") ~> Returned

\* C23: with serial_processing=True the sink executes only after all
\* submitted tasks have been completed by the job: no sink invocation happens
\* while a submitted task is still waiting or executing in the worker.
C23_SerialSinkAfterAllTasks ==
    [][(mode = "serial" /\ sink_calls' # sink_calls) =>
          \A t \in Accepted : tstate[t] \in {"returned", "raised"}]_vars

\* In serial mode the sink runs only inside mark_input_completed, after the
\* last task was submitted (what the code does guarantee).
SerialSinkAfterInputCompleted ==
    [][(mode = "serial" /\ sink_calls' # sink_calls) =>
          (task_sentinels = 1 /\ cpc = "serial_get")]_vars

\* C24: after _cleanup returns, the worker process and the result processor
\* process (if any) are not alive and both queues are closed, whatever the
\* state it was called in: tasks still queued or in flight, the worker
\* already terminated from outside, or processing already finished.
C24_CleanupStopsEverything ==
    cleanup_calls > 0 =>
        /\ wpc \notin {"loop", "signalled"}
        /\ rpc # "running"
        /\ closed

\* _cleanup was called with one task inside its run and another still on
\* the task queue: the worker and the result processor were killed.
C24_Witness ==
    /\ cpc = "cleaned"
    /\ wpc = "killed"
    /\ rpc = "killed"
    /\ \E t \in Tasks : tstate[t] = "running"
    /\ task_queue # <<>>
    /\ closed

\* C25: _cleanup is idempotent: a second call (for example an explicit call
\* after mark_input_completed has already run it) raises no error and leaves
\* the pipeline in the state the first call left it in.
C25_CleanupIdempotent ==
    [][(cleanup_calls >= 1 /\ cleanup_calls' = cleanup_calls + 1) =>
          /\ ~caller_error'
          /\ UNCHANGED <<evars, pvars, cvars, svars, completed, sink_order, sink_raised>>]_vars

\* _cleanup has been called again after mark_input_completed returned.
C25_Witness ==
    /\ cleanup_calls = 2
    /\ Returned
    /\ closed
    /\ ~caller_error

\* A capacity that a bounded queue would have to respect: one less than the
\* number of tasks the caller submits.
QueueCapacity == MaxTasks - 1

\* C26: both queues are bounded: the number of items held in the task queue
\* and in the result queue never exceeds a fixed capacity, a submit on a
\* full task queue blocking until there is space instead of growing the queue.
C26_QueuesBounded ==
    /\ Len(task_queue) <= QueueCapacity
    /\ Len(result_queue) <= QueueCapacity

\* No accepted task is lost by the queues (the part of the backpressure
\* sentence the code satisfies): a task is on the task queue or was dequeued.
NoTaskDiscarded ==
    \A t \in Accepted : t \in SeqRange(task_queue) \/ t \in SeqRange(dequeued)

(***************************************************************************)
(* Part 3.  The DSL and the compiler to precedence graphs.                 *)
(***************************************************************************)

\* The jobs an expression is made of.  Job 5 is another job with the name of job 1.
JobNames == <<"A", "B", "C", "D", "A">>

JobIds == 1..Len(JobNames)

\* Number of operators applied to one expression.
MaxDslOps == 2

\* MockJobABC(name): a leaf job.
MockJobABC(i) == DslObject("job", i, JobNames[i], <<>>)

\* Parallel(*components) and Serial(*components): components is the tuple of arguments.
Parallel(comps) == DslObject("Parallel", 0, "", comps)

Serial(comps) == DslObject("Serial", 0, "", comps)

\* WrappingJob(wrapped_object): a MockJobABC around another object.
WrappingJob(obj) == DslObject("WrappingJob", 0, "", <<obj>>)

\* The operator raised TypeError: can only concatenate list (not "tuple") to list.
TypeError == DslObject("TypeError", 0, "", <<>>)

\* parallel() or serial() raised ValueError: nothing to compose.
ValueError == DslObject("ValueError", 0, "", <<>>)

\* The call that was to make the object raised an exception.
Raised(obj) == obj.kind \in {"TypeError", "ValueError"}

\* A Python list given as the only argument of parallel() or serial().
ListArg(comps) == DslObject("list", 0, "", comps)

\* isinstance(obj, MockJobABC)
IsMockJobABC(obj) == obj.kind \in {"job", "WrappingJob"}

\* [self] + other.components: a list plus the tuple Parallel/Serial stores raises.
ListPlusComponents(self, comps) == TypeError

\* MockJobABC.__or__
MockJobABC_or(self, other) ==
    IF other.kind = "Parallel"
    THEN LET args == ListPlusComponents(self, other.components)
         IN  IF args = TypeError THEN TypeError ELSE Parallel(args)
    ELSE Parallel(<<self, other>>)

\* MockJobABC.__rshift__
MockJobABC_rshift(self, other) ==
    IF other.kind = "Serial"
    THEN LET args == ListPlusComponents(self, other.components)
         IN  IF args = TypeError THEN TypeError ELSE Serial(args)
    ELSE Serial(<<self, other>>)

\* Parallel.__or__: list(self.components) + [other]
Parallel_or(self, other) == Parallel(self.components \o <<other>>)

\* Parallel.__rshift__
Parallel_rshift(self, other) == Serial(<<self, other>>)

\* Serial.__or__
Serial_or(self, other) == Parallel(<<self, other>>)

\* Serial.__rshift__: list(self.components) + [other]
Serial_rshift(self, other) == Serial(self.components \o <<other>>)

\* x | y
Or(x, y) ==
    CASE x.kind = "Parallel" -> Parallel_or(x, y)
      [] x.kind = "Serial" -> Serial_or(x, y)
      [] OTHER -> MockJobABC_or(x, y)

\* x >> y
Rshift(x, y) ==
    CASE x.kind = "Parallel" -> Parallel_rshift(x, y)
      [] x.kind = "Serial" -> Serial_rshift(x, y)
      [] OTHER -> MockJobABC_rshift(x, y)

\* wrap(obj): a MockJobABC is returned as it is, anything else in a WrappingJob.
wrap(obj) == IF IsMockJobABC(obj) THEN obj ELSE WrappingJob(obj)

\* reduce(lambda acc, obj: acc | wrap(obj), objects[1:], wrap(objects[0]));
\* an exception of the operator ends the reduction.
RECURSIVE ReduceOr(_, _, _)
ReduceOr(acc, objects, i) ==
    IF i > Len(objects) \/ Raised(acc) THEN acc
    ELSE ReduceOr(Or(acc, wrap(objects[i])), objects, i + 1)

RECURSIVE ReduceRshift(_, _, _)
ReduceRshift(acc, objects, i) ==
    IF i > Len(objects) \/ Raised(acc) THEN acc
    ELSE ReduceRshift(Rshift(acc, wrap(objects[i])), objects, i + 1)

\* A single list argument stands for its elements.
Unpacked(objects) ==
    IF Len(objects) = 1 /\ objects[1].kind = "list" THEN objects[1].components ELSE objects

\* parallel(*objects) and serial(*objects)
parallel(objects) ==
    LET objs == Unpacked(objects)
    IN  IF objs = <<>> THEN ValueError
        ELSE IF Len(objs) = 1 THEN wrap(objs[1])
        ELSE ReduceOr(wrap(objs[1]), objs, 2)

serial(objects) ==
    LET objs == Unpacked(objects)
    IN  IF objs = <<>> THEN ValueError
        ELSE IF Len(objs) = 1 THEN wrap(objs[1])
        ELSE ReduceRshift(wrap(objs[1]), objs, 2)

\* The operands: every job, and small compositions of two jobs.
LeafOperands == {MockJobABC(i) : i \in JobIds}

CompositeOperands ==
    {Or(MockJobABC(i), MockJobABC(i + 1)) : i \in 2..3}
        \cup {Rshift(MockJobABC(i), MockJobABC(i + 1)) : i \in 2..3}

Operands == LeafOperands \cup CompositeOperands

\* The arguments after the first of a call of parallel() or serial().
RestArgs == {<<y>> : y \in Operands} \cup {<<y, z>> : y \in Operands, z \in LeafOperands}

\* The arguments of a call of parallel() or serial() that gives nothing to
\* compose or one object: none, an empty list, a list of one job.
FewArgs == {<<>>, <<ListArg(<<>>)>>} \cup {<<ListArg(<<y>>)>> : y \in LeafOperands}

\* extract_jobs: the jobs of the expression, each object once, in order of appearance.
RECURSIVE Extract(_, _)
RECURSIVE ExtractEach(_, _, _)
Extract(obj, jobs) ==
    IF obj.kind \in {"Serial", "Parallel"}
    THEN ExtractEach(obj.components, 1, jobs)
    ELSE IF obj.kind = "WrappingJob"
    THEN Extract(obj.components[1], jobs)
    ELSE IF \E k \in 1..Len(jobs) : jobs[k] = obj THEN jobs ELSE Append(jobs, obj)

ExtractEach(comps, i, jobs) ==
    IF i > Len(comps) THEN jobs
    ELSE ExtractEach(comps, i + 1, Extract(comps[i], jobs))

extract_jobs(dsl) == Extract(dsl, <<>>)

\* if comp_str not in graph[term_str]: graph[term_str].append(comp_str)
AddSuccessorAlways(successors, comp_str) == Append(successors, comp_str)

AddSuccessor(successors, comp_str) ==
    IF \E k \in 1..Len(successors) : successors[k] = comp_str
    THEN successors
    ELSE Append(successors, comp_str)

\* for term in prev_terminals: connect term to the component
RECURSIVE Connect(_, _, _, _)
Connect(g, prev_terminals, k, comp_str) ==
    IF k > Len(prev_terminals) THEN g
    ELSE LET term_str == prev_terminals[k].name
         IN  Connect([g EXCEPT ![term_str] = AddSuccessor(g[term_str], comp_str)],
                     prev_terminals, k + 1, comp_str)

\* build_connections: _process_component, _process_serial and _process_parallel
\* return the terminals of the component; the graph they append to is threaded through.
RECURSIVE ProcessComponent(_, _, _)
RECURSIVE ProcessSerial(_, _, _, _)
RECURSIVE ProcessParallel(_, _, _, _, _)
ProcessComponent(comp, prev_terminals, g) ==
    CASE comp.kind = "Serial" ->
            IF comp.components = <<>> THEN [graph |-> g, terminals |-> <<>>]
            ELSE ProcessSerial(comp.components, 1, prev_terminals, g)
      [] comp.kind = "Parallel" ->
            ProcessParallel(comp.components, 1, prev_terminals, g, <<>>)
      [] comp.kind = "WrappingJob" ->
            ProcessComponent(comp.components[1], prev_terminals, g)
      [] OTHER ->
            [graph |-> Connect(g, prev_terminals, 1, comp.name), terminals |-> <<comp>>]

ProcessSerial(comps, i, terminals, g) ==
    LET r == ProcessComponent(comps[i], terminals, g)
    IN  IF i = Len(comps) THEN r
        ELSE ProcessSerial(comps, i + 1, r.terminals, r.graph)

ProcessParallel(comps, i, prev_terminals, g, all_terminals) ==
    IF i > Len(comps) THEN [graph |-> g, terminals |-> all_terminals]
    ELSE LET r == ProcessComponent(comps[i], prev_terminals, g)
         IN  ProcessParallel(comps, i + 1, prev_terminals, r.graph,
                             all_terminals \o r.terminals)

build_connections(dsl, g) == ProcessComponent(dsl, <<>>, g).graph

\* dsl_to_precedence_graph: one key per str(job), then the connections; it
\* raises nothing, whatever the names of the jobs.
dsl_to_precedence_graph(dsl) ==
    LET jobs == extract_jobs(dsl)
        graph0 == [n \in {jobs[k].name : k \in 1..Len(jobs)} |-> <<>>]
    IN  build_connections(dsl, graph0)

CompileOutcome(dsl) == "returned"

\* The first job of an expression.
InitDsl ==
    /\ dsl_obj \in LeafOperands
    /\ dsl_calls = <<>>
    /\ dsl_args = <<dsl_obj>>
    /\ precedence_graph = EmptyGraph
    /\ compile_result = "pending"
    /\ build_result = "pending"
    /\ built_head = ""
    /\ wired_next_jobs = EmptyGraph
    /\ wired_expected_inputs = EmptyGraph
    /\ graph = graph_definition1
    /\ context = [t \in Tasks |-> "none"]
    /\ inputs_so_far = [k \in Tasks |-> EmptyInputs]
    /\ fired = [k \in Tasks |-> {}]
    /\ calls = [t \in Tasks |-> [j \in Jobs |-> 0]]
    /\ jstate = [t \in Tasks |-> [j \in Jobs |-> "idle"]]
    /\ run_args = [t \in Tasks |-> [j \in Jobs |-> {}]]
    /\ run_count = [t \in Tasks |-> [j \in Jobs |-> 0]]
    /\ skipped = [t \in Tasks |-> [j \in Jobs |-> 0]]
    /\ result = [t \in Tasks |-> {}]
    /\ mode = "none"
    /\ task_queue = <<>>
    /\ result_queue = <<>>
    /\ nsub = 0
    /\ kind = [t \in Tasks |-> "unset"]
    /\ cpc = "submitting"
    /\ wpc = "loop"
    /\ end_signal_received = FALSE
    /\ tasks = {}
    /\ tstate = [t \in Tasks |-> "none"]
    /\ rpc = "absent"
    /\ closed = FALSE
    /\ caller_error = FALSE
    /\ dequeued = <<>>
    /\ created_count = [t \in Tasks |-> 0]
    /\ results_put = [t \in Tasks |-> 0]
    /\ sentinels_put = 0
    /\ task_sentinels = 0
    /\ sink_calls = [t \in Tasks |-> 0]
    /\ serial_end = "none"
    /\ crash_call = FALSE
    /\ picklable = TRUE
    /\ construct_error = FALSE
    /\ queues_created = FALSE
    /\ njobs = 1
    /\ job_collection = <<"J1">>
    /\ job_map = <<"J1">>
    /\ job_name = [t \in Tasks |-> ""]
    /\ given = [t \in Tasks |-> "none"]
    /\ submit_errors = {}
    /\ raised_errors = {}
    /\ none_at = -1
    /\ payload = NoSubmit
    /\ dispatched = [t \in Tasks |-> ""]
    /\ completed = <<>>
    /\ sink_order = <<>>
    /\ sink_raised = {}
    /\ cleanup_calls = 0

\* An expression can be composed further: no operator raised, it was not compiled yet.
Composable ==
    /\ ~Raised(dsl_obj)
    /\ compile_result = "pending"
    /\ Len(dsl_calls) < MaxDslOps

\* dsl_obj | y
OrOp(y) ==
    /\ Composable
    /\ dsl_obj' = Or(dsl_obj, y)
    /\ dsl_calls' = Append(dsl_calls, "or")
    /\ dsl_args' = Append(dsl_args, y)
    /\ UNCHANGED <<precedence_graph, compile_result>>
    /\ UNCHANGED bvars
    /\ UNCHANGED <<evars, pvars, cvars, svars, ovars>>

\* dsl_obj >> y
RshiftOp(y) ==
    /\ Composable
    /\ dsl_obj' = Rshift(dsl_obj, y)
    /\ dsl_calls' = Append(dsl_calls, "rshift")
    /\ dsl_args' = Append(dsl_args, y)
    /\ UNCHANGED <<precedence_graph, compile_result>>
    /\ UNCHANGED bvars
    /\ UNCHANGED <<evars, pvars, cvars, svars, ovars>>

\* parallel(dsl_obj, *rest), called on the first job
ParallelCall(rest) ==
    /\ Composable
    /\ dsl_calls = <<>>
    /\ dsl_obj' = parallel(<<dsl_obj>> \o rest)
    /\ dsl_calls' = <<"parallel">>
    /\ dsl_args' = <<dsl_obj>> \o rest
    /\ UNCHANGED <<precedence_graph, compile_result>>
    /\ UNCHANGED bvars
    /\ UNCHANGED <<evars, pvars, cvars, svars, ovars>>

\* serial(dsl_obj, *rest), called on the first job
SerialCall(rest) ==
    /\ Composable
    /\ dsl_calls = <<>>
    /\ dsl_obj' = serial(<<dsl_obj>> \o rest)
    /\ dsl_calls' = <<"serial">>
    /\ dsl_args' = <<dsl_obj>> \o rest
    /\ UNCHANGED <<precedence_graph, compile_result>>
    /\ UNCHANGED bvars
    /\ UNCHANGED <<evars, pvars, cvars, svars, ovars>>

\* parallel(*args) or serial(*args) called with no job of its own
FewArgsCall(fn, args) ==
    /\ Composable
    /\ dsl_calls = <<>>
    /\ dsl_obj' = IF fn = "parallel" THEN parallel(args) ELSE serial(args)
    /\ dsl_calls' = <<fn>>
    /\ dsl_args' = args
    /\ UNCHANGED <<precedence_graph, compile_result>>
    /\ UNCHANGED bvars
    /\ UNCHANGED <<evars, pvars, cvars, svars, ovars>>

\* Parallel(*comps) or Serial(*comps): the constructor called directly, with
\* no component or with the first job.
Construct(k, comps) ==
    /\ Composable
    /\ dsl_calls = <<>>
    /\ comps \in {<<>>, <<dsl_obj>>}
    /\ dsl_obj' = IF k = "Parallel" THEN Parallel(comps) ELSE Serial(comps)
    /\ dsl_calls' = <<k>>
    /\ dsl_args' = comps
    /\ UNCHANGED <<precedence_graph, compile_result>>
    /\ UNCHANGED bvars
    /\ UNCHANGED <<evars, pvars, cvars, svars, ovars>>

\* dsl_to_precedence_graph(dsl_obj)
Compile ==
    /\ ~Raised(dsl_obj)
    /\ compile_result = "pending"
    /\ compile_result' = CompileOutcome(dsl_obj)
    /\ precedence_graph' = dsl_to_precedence_graph(dsl_obj)
    /\ UNCHANGED <<dsl_obj, dsl_calls, dsl_args>>
    /\ UNCHANGED bvars
    /\ UNCHANGED <<evars, pvars, cvars, svars, ovars>>

\* The Job Graph Builder.  The name -> Job registry resolves a name to its job.
JobNamed(n) == [name |-> n]

Registry(names) == [n \in names |-> JobNamed(n)]

\* The reverse mapping: the jobs that list j as a successor.
SuccessorsAsInputs(mapping, j) == SeqRange(mapping[j])

Predecessors(mapping, j) == {p \in DOMAIN mapping : j \in SeqRange(mapping[p])}

\* next_jobs: the resolved successors in declared order.
WireNextJobs(mapping, registry) ==
    [n \in DOMAIN mapping |-> [k \in 1..Len(mapping[n]) |-> registry[mapping[n][k]]]]

\* expected_inputs: the set of predecessors.
WireExpectedInputs(mapping) == [n \in DOMAIN mapping |-> Predecessors(mapping, n)]

\* The nodes with no predecessors, and whether they determine a head.
HeadCandidates(mapping) == {n \in DOMAIN mapping : Predecessors(mapping, n) = {}}

HeadFoundWhenAny(candidates) == candidates # {}

HeadFound(candidates) == Cardinality(candidates) = 1

\* The builder wires the jobs of a compiled mapping and returns the head, or
\* raises NoSingleHead.
BuildGraph ==
    /\ compile_result = "returned"
    /\ build_result = "pending"
    /\ LET candidates == HeadCandidates(precedence_graph)
       IN  IF HeadFound(candidates)
           THEN /\ build_result' = "built"
                /\ built_head' = CHOOSE n \in candidates : TRUE
                /\ wired_next_jobs' = WireNextJobs(precedence_graph, Registry(DOMAIN precedence_graph))
                /\ wired_expected_inputs' = WireExpectedInputs(precedence_graph)
           ELSE /\ build_result' = "NoSingleHead"
                /\ UNCHANGED <<built_head, wired_next_jobs, wired_expected_inputs>>
    /\ UNCHANGED <<dsl_obj, dsl_calls, dsl_args, precedence_graph, compile_result>>
    /\ UNCHANGED <<evars, pvars, cvars, svars, ovars>>

NextDsl ==
    \/ \E y \in Operands : OrOp(y)
    \/ \E y \in Operands : RshiftOp(y)
    \/ \E rest \in RestArgs : ParallelCall(rest)
    \/ \E rest \in RestArgs : SerialCall(rest)
    \/ \E fn \in {"parallel", "serial"}, args \in FewArgs : FewArgsCall(fn, args)
    \/ \E k \in {"Parallel", "Serial"}, comps \in {<<>>, <<dsl_obj>>} : Construct(k, comps)
    \/ Compile
    \/ BuildGraph

SpecDsl == InitDsl /\ [][NextDsl]_vars

\* An operator was applied in this step.
OperatorApplied(op) ==
    /\ Len(dsl_calls') = Len(dsl_calls) + 1
    /\ dsl_calls'[Len(dsl_calls')] = op

\* The right operand of the operator applied in this step.
RightOperand == dsl_args'[Len(dsl_args')]

\* obj is of the kind and none of its direct children is.
IsFlat(k, obj) ==
    /\ obj.kind = k
    /\ \A c \in 1..Len(obj.components) : obj.components[c].kind # k

\* C27: operator results are in flat normal form: x | y is a Parallel none of
\* whose direct children is a Parallel, whatever the operands, and
\* Serial >> Serial is a Serial none of whose direct children is a Serial.
C27_FlatNormalForm ==
    [][ /\ OperatorApplied("or") => IsFlat("Parallel", dsl_obj')
        /\ (OperatorApplied("rshift") /\ dsl_obj.kind = "Serial" /\ RightOperand.kind = "Serial")
              => IsFlat("Serial", dsl_obj') ]_vars

\* What the operators do achieve: the children of a flat composite on the
\* left are spliced in when the right operand is not of the same kind.
LeftOperandSpliced ==
    [][ /\ (OperatorApplied("or") /\ dsl_obj.kind = "Parallel" /\ IsFlat("Parallel", dsl_obj)
              /\ RightOperand.kind # "Parallel")
              => IsFlat("Parallel", dsl_obj')
        /\ (OperatorApplied("rshift") /\ dsl_obj.kind = "Serial" /\ IsFlat("Serial", dsl_obj)
              /\ RightOperand.kind # "Serial")
              => IsFlat("Serial", dsl_obj') ]_vars

\* Three jobs with three names.
DistinctJobs(a, b, c) == Cardinality({a.name, b.name, c.name}) = 3

\* x op y, and the function of the operator.
Apply(op, x, y) == IF op = "or" THEN Or(x, y) ELSE Rshift(x, y)

FunctionOf(op) == IF op = "or" THEN "parallel" ELSE "serial"

CallFunction(op, objects) == IF op = "or" THEN parallel(objects) ELSE serial(objects)

\* The expression was written as (a op b) op c, as a op (b op c), as f(a, b, c).
LeftForm(op, a, b, c) == dsl_calls = <<op, op>> /\ dsl_args = <<a, b, c>>

RightForm(op, a, b, c) == dsl_calls = <<op>> /\ dsl_args = <<a, Apply(op, b, c)>>

FunctionForm(op, a, b, c) == dsl_calls = <<FunctionOf(op)>> /\ dsl_args = <<a, b, c>>

\* The expression was built, and its compilation gives what f(a, b, c) compiles to.
SameAsFunctionForm(op, a, b, c) ==
    /\ ~Raised(dsl_obj)
    /\ compile_result = "returned"
          => precedence_graph = dsl_to_precedence_graph(CallFunction(op, <<a, b, c>>))

\* C28: composition is associative as precedence graphs: for distinct jobs a,
\* b, c the expressions (a | b) | c, a | (b | c) and parallel(a, b, c) are all
\* built and compiled without error and give the same mapping, and likewise
\* (a >> b) >> c, a >> (b >> c) and serial(a, b, c).
C28_Associative ==
    \A a \in LeafOperands, b \in LeafOperands, c \in LeafOperands :
        \A op \in {"or", "rshift"} :
            (DistinctJobs(a, b, c)
                /\ (LeftForm(op, a, b, c) \/ RightForm(op, a, b, c) \/ FunctionForm(op, a, b, c)))
                => SameAsFunctionForm(op, a, b, c)

\* What does hold: the left-nested form and the function form agree.
LeftAndFunctionFormsAgree ==
    \A a \in LeafOperands, b \in LeafOperands, c \in LeafOperands :
        \A op \in {"or", "rshift"} :
            (DistinctJobs(a, b, c)
                /\ (LeftForm(op, a, b, c) \/ FunctionForm(op, a, b, c)))
                => SameAsFunctionForm(op, a, b, c)

\* Both forms were compiled (in different behaviours), for the serial case.
LeftFormCompiled ==
    /\ compile_result = "returned"
    /\ LeftForm("rshift", MockJobABC(1), MockJobABC(2), MockJobABC(3))
    /\ precedence_graph["A"] = <<"B">>

\* The leaf jobs of an expression.
RECURSIVE LeafJobs(_)
LeafJobs(e) ==
    IF e.kind = "job" THEN {e}
    ELSE UNION {LeafJobs(e.components[k]) : k \in 1..Len(e.components)}

\* No two leaf jobs of the expression carry the same name.
DistinctlyNamed(e) == \A x \in LeafJobs(e), y \in LeafJobs(e) : x.name = y.name => x = y

\* The entry frontier: the leaves that start the expression.
RECURSIVE EntryFrontier(_)
EntryFrontier(e) ==
    CASE e.kind = "job" -> {e.name}
      [] e.kind = "Serial" -> IF e.components = <<>> THEN {} ELSE EntryFrontier(e.components[1])
      [] OTHER -> UNION {EntryFrontier(e.components[k]) : k \in 1..Len(e.components)}

\* The terminal frontier: the leaves that end the expression.
RECURSIVE TerminalFrontier(_)
TerminalFrontier(e) ==
    CASE e.kind = "job" -> {e.name}
      [] e.kind = "Serial" ->
            IF e.components = <<>> THEN {} ELSE TerminalFrontier(e.components[Len(e.components)])
      [] OTHER -> UNION {TerminalFrontier(e.components[k]) : k \in 1..Len(e.components)}

\* The edges of the frontier rule: those of the children, and for a Serial
\* those from the terminal frontier of each child to the entry frontier of the next.
RECURSIVE FrontierEdges(_)
FrontierEdges(e) ==
    LET inner == UNION {FrontierEdges(e.components[k]) : k \in 1..Len(e.components)}
    IN  IF e.kind = "Serial"
        THEN inner \cup UNION {TerminalFrontier(e.components[k]) \X EntryFrontier(e.components[k + 1]) :
                                  k \in 1..(Len(e.components) - 1)}
        ELSE inner

\* The connections in the order in which they are made, reading the
\* expression from left to right: each leaf is connected from the frontier
\* before it.
RECURSIVE ConnectionEvents(_, _)
RECURSIVE ConnectionEventsEach(_, _, _, _)
ConnectionEvents(e, before) ==
    IF e.kind = "job" THEN <<[from |-> before, to |-> e.name]>>
    ELSE ConnectionEventsEach(e, 1, before, <<>>)

ConnectionEventsEach(e, k, before, events) ==
    IF k > Len(e.components) THEN events
    ELSE LET frontier == IF e.kind = "Serial" /\ k > 1
                         THEN TerminalFrontier(e.components[k - 1])
                         ELSE before
         IN  ConnectionEventsEach(e, k + 1, before,
                                  events \o ConnectionEvents(e.components[k], frontier))

\* A sequence without its repetitions.
RECURSIVE FirstOccurrences(_, _, _)
FirstOccurrences(events, k, seen) ==
    IF k > Len(events) THEN seen
    ELSE FirstOccurrences(events, k + 1,
            IF \E i \in 1..Len(seen) : seen[i] = events[k].to THEN seen
            ELSE Append(seen, events[k].to))

\* The successors of t in first-connection order.
FirstConnectionOrder(e, t) ==
    FirstOccurrences(SelectSeq(ConnectionEvents(e, {}), LAMBDA ev : t \in ev.from), 1, <<>>)

\* s(A, p(B, C), D), written with the functions and with the operators.
ExampleByFunctions ==
    serial(<<MockJobABC(1), parallel(<<MockJobABC(2), MockJobABC(3)>>), MockJobABC(4)>>)

ExampleByOperators ==
    Rshift(Rshift(MockJobABC(1), Or(MockJobABC(2), MockJobABC(3))), MockJobABC(4))

ExampleGraph == [A |-> <<"B", "C">>, B |-> <<"D">>, C |-> <<"D">>, D |-> <<>>]

\* C29: for an expression over distinctly named leaf jobs the compiled graph
\* has one key per leaf, an edge t -> e exactly for the edges of the frontier
\* rule, each successor once, in first-connection order; s(A, p(B, C), D)
\* gives A:[B,C], B:[D], C:[D], D:[].
C29_FrontierRule ==
    (compile_result = "returned" /\ DistinctlyNamed(dsl_obj)) =>
        /\ DOMAIN precedence_graph = {j.name : j \in LeafJobs(dsl_obj)}
        /\ \A t \in DOMAIN precedence_graph :
              LET successors == precedence_graph[t]
              IN  /\ {successors[k] : k \in 1..Len(successors)}
                        = {e \in DOMAIN precedence_graph : <<t, e>> \in FrontierEdges(dsl_obj)}
                  /\ \A i \in 1..Len(successors), k \in 1..Len(successors) :
                        successors[i] = successors[k] => i = k
                  /\ successors = FirstConnectionOrder(dsl_obj, t)
        /\ dsl_obj \in {ExampleByFunctions, ExampleByOperators} => precedence_graph = ExampleGraph

\* s(A, p(B, C), D) was compiled and A is connected to B and to C, in this order.
C29_Witness ==
    /\ compile_result = "returned"
    /\ dsl_obj = ExampleByFunctions
    /\ precedence_graph["A"] = <<"B", "C">>
    /\ precedence_graph["B"] = <<"D">>

\* C30: compiling an expression in which two distinct leaf jobs carry the
\* same name fails with a duplicate-name error: the compiler returns no graph
\* in which the two jobs are one node.
C30_DuplicateNameRejected ==
    (compile_result # "pending" /\ ~DistinctlyNamed(dsl_obj)) => compile_result = "DuplicateName"

\* What the compiler does: it returns a graph with fewer keys than the
\* expression has leaf jobs.
DuplicateNamesMerged ==
    (compile_result # "pending" /\ ~DistinctlyNamed(dsl_obj)) =>
        /\ compile_result = "returned"
        /\ Cardinality(DOMAIN precedence_graph) < Cardinality(LeafJobs(dsl_obj))

\* Two jobs named A around B were compiled into a cycle A -> B -> A.
DuplicateNamesCompiled ==
    /\ compile_result = "returned"
    /\ dsl_obj = serial(<<MockJobABC(1), MockJobABC(2), MockJobABC(5)>>)
    /\ precedence_graph = [A |-> <<"B">>, B |-> <<"A">>]

\* The names reachable from the names of from through successor edges, in at least one step.
RECURSIVE ReachableFrom(_, _, _)
ReachableFrom(g, from, found) ==
    LET next == UNION {{g[n][k] : k \in 1..Len(g[n])} : n \in from \cap DOMAIN g}
    IN  IF next \subseteq found THEN found
        ELSE ReachableFrom(g, next \ found, found \cup next)

\* No key of the mapping is among its own transitive successors.
Acyclic(g) == \A n \in DOMAIN g : n \notin ReachableFrom(g, {n}, {})

\* The leaves of an expression from left to right, each as often as it is written.
RECURSIVE LeafOccurrences(_)
RECURSIVE LeafOccurrencesEach(_, _)
LeafOccurrences(e) ==
    IF e.kind = "job" THEN <<e>> ELSE LeafOccurrencesEach(e.components, 1)

LeafOccurrencesEach(comps, k) ==
    IF k > Len(comps) THEN <<>>
    ELSE LeafOccurrences(comps[k]) \o LeafOccurrencesEach(comps, k + 1)

\* No name is written twice in the expression.
EachNameOnce(e) ==
    LET occ == LeafOccurrences(e)
    IN  \A i \in 1..Len(occ), k \in 1..Len(occ) : occ[i].name = occ[k].name => i = k

\* C31: the graph compiled from any expression built with | and >> over job
\* leaves is acyclic: the compiler fails with a Cycle error instead of
\* returning a graph in which a job is reachable from itself.
C31_CompiledGraphAcyclic ==
    compile_result = "returned" => Acyclic(precedence_graph)

\* What does hold: an expression in which no name is written twice compiles
\* to an acyclic graph.
AcyclicWhenEachNameOnce ==
    (compile_result = "returned" /\ EachNameOnce(dsl_obj)) => Acyclic(precedence_graph)

\* a >> b >> a was compiled into the cycle A -> B -> A.
CycleCompiled ==
    /\ compile_result = "returned"
    /\ dsl_obj = Rshift(Rshift(MockJobABC(1), MockJobABC(2)), MockJobABC(1))
    /\ precedence_graph = [A |-> <<"B">>, B |-> <<"A">>]

\* No Parallel or Serial inside the object has an empty component list.
RECURSIVE NoEmptyComposite(_)
NoEmptyComposite(e) ==
    /\ e.kind \in {"Parallel", "Serial"} => e.components # <<>>
    /\ \A k \in 1..Len(e.components) : NoEmptyComposite(e.components[k])

\* parallel() or serial() was called with no component or with an empty list.
CalledWithNothing ==
    /\ dsl_calls # <<>>
    /\ dsl_calls[1] \in {"parallel", "serial"}
    /\ dsl_args \in {<<>>, <<ListArg(<<>>)>>}

\* C32: a composite with zero children is rejected: parallel() and serial()
\* with no components or with one empty list raise, and no Parallel or Serial
\* with an empty component list is ever constructed or compiled.
C32_EmptyCompositionRejected ==
    /\ CalledWithNothing => dsl_obj = ValueError
    /\ NoEmptyComposite(dsl_obj)

\* What does hold: the functions raise when given nothing, and what the
\* functions and the operators build from jobs has no empty composite.
EmptyCallsRaise ==
    /\ CalledWithNothing => dsl_obj = ValueError
    /\ (dsl_calls # <<>> /\ dsl_calls[1] \notin {"Parallel", "Serial"}) => NoEmptyComposite(dsl_obj)

\* Parallel() was constructed and compiled to the empty mapping.
EmptyParallelCompiled ==
    /\ compile_result = "returned"
    /\ dsl_obj = Parallel(<<>>)
    /\ precedence_graph = EmptyGraph

\* The keys of the compiled mapping that no key lists as a successor.
WithoutPredecessor ==
    {n \in DOMAIN precedence_graph :
        \A p \in DOMAIN precedence_graph :
            \A k \in 1..Len(precedence_graph[p]) : precedence_graph[p][k] # n}

\* C33: the Job Graph Builder returns as head the unique job without
\* predecessors in the mapping and raises NoSingleHead when there is none or
\* more than one, as for the mapping compiled from a top-level a | b.
C33_SingleHead ==
    build_result # "pending" =>
        /\ Cardinality(WithoutPredecessor) = 1
              => (build_result = "built" /\ WithoutPredecessor = {built_head})
        /\ Cardinality(WithoutPredecessor) # 1 => build_result = "NoSingleHead"
        /\ dsl_obj = Or(MockJobABC(1), MockJobABC(2)) => build_result = "NoSingleHead"

\* The mapping compiled from a | b was given to the builder, which raised.
C33_Witness ==
    /\ dsl_obj = Or(MockJobABC(1), MockJobABC(2))
    /\ precedence_graph = [A |-> <<>>, B |-> <<>>]
    /\ build_result = "NoSingleHead"

\* next_jobs read back as an adjacency list of names.
AdjacencyLists(wired) ==
    [n \in DOMAIN wired |-> [k \in 1..Len(wired[n]) |-> wired[n][k].name]]

C35_SerialDrainComplete ==
    (mode = "serial" /\ serial_end # "none") =>
        \/ serial_end = "sentinel"
        \/ (result_queue = <<>> /\ sentinels_put = 0)

\* What does hold: a drain that ended on the sentinel has passed every result
\* to the sink, and a drain that ended otherwise found the worker not alive.
SerialDrainOnSentinelComplete ==
    /\ (mode = "serial" /\ serial_end = "sentinel")
          => (result_queue = <<>> /\ \A t \in Tasks : sink_calls[t] = results_put[t])
    /\ (mode = "serial" /\ serial_end = "dead") => ~WorkerAlive

\* The drain was left with a result and the sentinel still on the queue.
SerialDrainAbandoned ==
    /\ mode = "serial"
    /\ serial_end = "dead"
    /\ Len(result_queue) = 2
    /\ sentinels_put = 1

\* C36: a result processor process exists if and only if a sink was supplied
\* and serial_processing is false; in serial mode the sink is invoked only by
\* the caller inside mark_input_completed, so no result reaches the sink
\* before mark_input_completed is called.  (That in parallel mode the sink
\* can be invoked while the caller is still submitting is the witness.)
C36_SinkPlacement ==
    /\ [](~construct_error => (rpc # "absent" <=> mode = "parallel"))
    /\ []((mode = "serial" /\ cpc \in {"submitting", "cleaned"})
              => (sink_order = <<>> /\ \A t \in Tasks : sink_calls[t] = 0))
    /\ [][(mode = "serial" /\ sink_order' # sink_order)
              => (cpc = "serial_get" /\ rpc = "absent")]_vars

\* In parallel mode a result has reached the sink while the caller is still
\* submitting tasks.
C36_Witness ==
    /\ mode = "parallel"
    /\ cpc = "submitting"
    /\ nsub < MaxTasks
    /\ sink_order # <<>>
    /\ rpc = "running"

\* In serial mode a result has reached the sink, inside mark_input_completed.
SerialSinkInvoked ==
    /\ mode = "serial"
    /\ sink_order # <<>>
    /\ cpc = "serial_get"

\* A submit_task call ended in this step without accepting the task.
RejectedSubmit ==
    /\ nsub' = nsub
    /\ submit_errors' # submit_errors \/ payload' # payload
    /\ none_at' = none_at
    /\ pvars' # pvars \/ svars' # svars

\* C37: every rejected submit leaves the pipeline unchanged: nothing is put
\* on the input queue, the registry is unchanged and the caller's payload
\* mapping is not modified.
C37_RejectedSubmitNoEffect ==
    [][RejectedSubmit =>
          /\ task_queue' = task_queue
          /\ pvars' = pvars
          /\ cvars' = cvars
          /\ job_name' = job_name
          /\ dispatched' = dispatched
          /\ payload'.after = payload'.before]_vars

\* With two jobs loaded a task was accepted, and a submit naming an unknown
\* job in the payload was rejected.
C37_Witness ==
    /\ njobs = 2
    /\ nsub = 1
    /\ Len(task_queue) = 1
    /\ "UnknownGraph" \in submit_errors
    /\ payload = [before |-> "J9", after |-> "J9"]

\* The collection is empty, holds an item that is not a job, or holds two
\* jobs of one name.
BadCollection ==
    \/ job_collection = <<>>
    \/ \E i \in 1..Len(job_collection) : job_collection[i] = NotAJob
    \/ \E i \in 1..Len(job_collection), k \in 1..Len(job_collection) :
          i # k /\ job_collection[i] = job_collection[k]

\* C38: constructing a JobChain from an empty collection, from a collection
\* with a non-Job item or from one in which two jobs share a name raises
\* before any worker or result processor process is started; on success the
\* registry holds exactly one entry per job name.
C38_ConstructorValidates ==
    /\ BadCollection =>
          /\ construct_error
          /\ wpc = "unstarted"
          /\ rpc = "absent"
          /\ nsub = 0
    /\ ~construct_error =>
          /\ Len(job_map) = Len(job_collection)
          /\ SeqRange(job_map) = SeqRange(job_collection)
          /\ \A i \in 1..Len(job_map), k \in 1..Len(job_map) : job_map[i] = job_map[k] => i = k
          /\ wpc # "unstarted"

\* The constructor was given two jobs of one name and raised.
C38_Witness ==
    /\ job_collection = <<"J1", "J1">>
    /\ construct_error
    /\ wpc = "unstarted"
    /\ job_map = <<>>

\* The constructor was given two jobs and a task was executed by the second.
ConstructedWithTwoJobs ==
    /\ job_map = <<"J2", "J1">>
    /\ \E t \in Tasks : dispatched[t] = "J2"

====
